---- MODULE Spec2Model ----
(***************************************************************************)
(* Repayment-optimization engine of ResolveAI:                             *)
(*   backend/app/services/optimization_service.py                          *)
(*                                                                         *)
(* OptimizationService.calculate_plan and calculate_minimum_only_plan are  *)
(* modelled as calls made by a caller on fixed inputs.  One step of the    *)
(* model is one call, one iteration of a monthly loop, or one return.      *)
(*                                                                         *)
(* Money is fixed point: one unit is 0.001 currency units, so 0.01 is 10   *)
(* and 1000.00 is 1000000.  The source computes in binary floating point;  *)
(* here balance * apr / 12 / 100 is balance * apr \div 1200, truncated to  *)
(* the unit, and sums and comparisons are exact.  APRs are whole percents. *)
(* Not modelled: the rounding of float sums (when the budget equals the    *)
(* sum of the minimums, remaining_budget >= min_payment can fail by one    *)
(* rounding error on the last debt in order) and the default start date,   *)
(* which reads the wall clock; every call passes an explicit start date.   *)
(*                                                                         *)
(* Second part, specification AgentSpec:                                   *)
(*   backend/app/agents/optimization_agent.py                              *)
(* OptimizationAgent.optimize_repayment_plan on fixed inputs: the strategy *)
(* advisor, the retry loop of _generate_ai_plan around the external model, *)
(* _parse_ai_plan_response, _validate_ai_plan and the fallback to          *)
(* calculate_plan.  The external model is the environment: each call       *)
(* either raises or returns a text, given here by what json.loads makes of *)
(* it.  One step is the entry of the call up to the retry loop, one        *)
(* attempt of the loop, one step of the fallback, or the return.           *)
(*                                                                         *)
(* Further specifications: CompareSpec, the plan and the minimum-only      *)
(* comparison run that PlanService.generate_plan makes on the same debts   *)
(* (backend/app/services/plan_service.py); LoopSpec, several runs of       *)
(* _generate_ai_plan as coroutines on one event loop; OrchSpec,            *)
(* DebtResolutionOrchestrator.handle_user_event with the specialised       *)
(* agents as the environment (backend/app/agents/orchestrator.py).         *)
(***************************************************************************)
EXTENDS Integers, Sequences, FiniteSets, TLC

VARIABLES
    \* inputs of the calls (caller-owned, fixed for a behaviour)
    op, debts, available_monthly, strategy, extra_payment, start_date,
    \* control
    pc, calls, results,
    \* locals of _simulate_payoff
    sorted_debts, monthly_payment, balances, monthly_schedule, projections,
    payoff_order, total_interest_paid, total_principal_paid, month,
    current_date,
    \* locals of calculate_minimum_only_plan
    mo_balances, total_interest, mo_month,
    \* inputs of optimize_repayment_plan (caller-owned)
    user_debts, monthly_budget, requested_strategy, constraints,
    \* control and locals of _optimize_plan and _generate_ai_plan
    apc, strategy_response, ai_recommendation, resolved_strategy, attempt,
    response, ai_plan, accepted, agent_result,
    \* the event loop hosting optimization runs: the run whose code the
    \* loop's thread is executing (0: none), and each run's position
    loop_running, run_pc, run_attempt,
    \* inputs of DebtResolutionOrchestrator.handle_user_event
    event_type, existing_plan,
    \* control and locals of _handle_adaptive_event and _orchestrate_workflow
    opc, trigger_event, current_phase, iteration, assessment_result,
    optimization_result, daily_actions_result, milestones_result,
    negotiation_plans, workflow_trace, agent_calls, orch_result

inputs == <<op, debts, available_monthly, strategy, extra_payment, start_date>>
simLocals == <<sorted_debts, monthly_payment, balances, monthly_schedule,
               projections, payoff_order, total_interest_paid,
               total_principal_paid, month, current_date>>
moLocals == <<mo_balances, total_interest, mo_month>>
agentInputs == <<user_debts, monthly_budget, requested_strategy, constraints>>
agentLocals == <<apc, strategy_response, ai_recommendation, resolved_strategy,
                 attempt, response, ai_plan, accepted, agent_result>>
agentVars == <<agentInputs, agentLocals>>
loopVars == <<loop_running, run_pc, run_attempt>>
orchInputs == <<event_type, existing_plan>>
orchLocals == <<opc, trigger_event, current_phase, iteration, assessment_result,
                optimization_result, daily_actions_result, milestones_result,
                negotiation_plans, workflow_trace, agent_calls, orch_result>>
orchVars == <<orchInputs, orchLocals>>
hostVars == <<loopVars, orchVars>>
vars == <<inputs, pc, calls, results, simLocals, moLocals, agentVars, hostVars>>

----------------------------------------------------------------------------
\* Bounds of the model

\* longest debt list a caller passes
MaxDebts == 2
\* number of calls the caller makes on the same inputs
MaxCalls == 2

----------------------------------------------------------------------------
\* Program constants (money in units of 0.001)

\* 0.01, the threshold under which a balance counts as paid
EPSILON == 10
\* iteration cap of both monthly loops
max_months == 600
\* the 1000 of "sum of balances + 1000" in calculate_plan
OVERPAY_MARGIN == 1000000

Cur(x) == x * 1000

Min(a, b) == IF a <= b THEN a ELSE b
Max(a, b) == IF a >= b THEN a ELSE b

RECURSIVE SumSeq(_)
SumSeq(s) == IF s = <<>> THEN 0 ELSE Head(s) + SumSeq(Tail(s))

\* values of a sequence of records' field
BalancesOf(ds) == [i \in 1..Len(ds) |-> ds[i].balance]
MinimumsOf(ds) == [i \in 1..Len(ds) |-> ds[i].minimum_payment]
IdsOf(ds) == {ds[i].id : i \in 1..Len(ds)}

----------------------------------------------------------------------------
\* Inputs

AVALANCHE == "avalanche"
SNOWBALL == "snowball"
Strategies == {AVALANCHE, SNOWBALL}

\* DebtInfo records a caller may pass.  Card and Store tie on APR, Card and
\* Auto on balance; Zero is already paid but keeps a minimum payment on
\* record; Stuck's minimum payment (0.50) is below its monthly interest (1.00).
DebtPool == {
    [id |-> "card",  name |-> "Card",  balance |-> Cur(1000), apr |-> 20, minimum_payment |-> Cur(50)],
    [id |-> "store", name |-> "Store", balance |-> Cur(500),  apr |-> 20, minimum_payment |-> Cur(30)],
    [id |-> "auto",  name |-> "Auto",  balance |-> Cur(1000), apr |-> 8,  minimum_payment |-> Cur(40)],
    [id |-> "zero",  name |-> "Zero",  balance |-> 0,         apr |-> 10, minimum_payment |-> Cur(25)],
    [id |-> "stuck", name |-> "Stuck", balance |-> Cur(600),  apr |-> 2,  minimum_payment |-> Cur(1) \div 2]
}

\* debt lists with pairwise distinct ids, in every input order
DebtLists ==
    UNION { { l \in [1..n -> DebtPool] :
                \A i, j \in 1..n : i # j => l[i].id # l[j].id }
            : n \in 0..MaxDebts }

Budgets == {0, Cur(200), Cur(3000)}
ExtraPayments == {0, Cur(50)}

\* a date is the first of a month
Date(y, m) == [year |-> y, month |-> m]
StartDates == {Date(2026, 11)}

NextMonth(d) ==
    IF d.month = 12 THEN Date(d.year + 1, 1) ELSE Date(d.year, d.month + 1)

----------------------------------------------------------------------------
\* _sort_debts: Python's sorted() is stable, also with reverse=True

\* does a come strictly before b under the strategy's key?
KeyBefore(a, b, strat) ==
    IF strat = AVALANCHE THEN a.apr > b.apr ELSE a.balance < b.balance

\* (mutant of InsertStable) an insertion that puts d before the elements
\* with an equal key, as an unstable sort may
RECURSIVE InsertUnstable(_, _, _)
InsertUnstable(s, d, strat) ==
    IF s = <<>> THEN <<d>>
    ELSE IF ~KeyBefore(Head(s), d, strat) THEN <<d>> \o s
    ELSE <<Head(s)>> \o InsertUnstable(Tail(s), d, strat)

\* insert d after every element that does not come strictly after it
RECURSIVE InsertStable(_, _, _)
InsertStable(s, d, strat) ==
    IF s = <<>> THEN <<d>>
    ELSE IF KeyBefore(d, Head(s), strat) THEN <<d>> \o s
    ELSE <<Head(s)>> \o InsertStable(Tail(s), d, strat)

RECURSIVE SortPrefix(_, _, _)
SortPrefix(ds, n, strat) ==
    IF n = 0 THEN <<>>
    ELSE InsertStable(SortPrefix(ds, n - 1, strat), ds[n], strat)

_sort_debts(ds, strat) == SortPrefix(ds, Len(ds), strat)

----------------------------------------------------------------------------
\* One month of _simulate_payoff

MonthlyInterest(balance, apr) == (balance * apr) \div 1200

InterestThisMonth(bals, debt) ==
    IF bals[debt.id] > EPSILON THEN MonthlyInterest(bals[debt.id], debt.apr) ELSE 0

InPayoffOrder(po, id) == \E k \in 1..Len(po) : po[k].debt_id = id

PayoffInfo(debt, m, d, tip, tpp) ==
    [debt_id |-> debt.id, debt_name |-> debt.name, payoff_month |-> m,
     payoff_date |-> d, total_interest_paid |-> tip, total_paid |-> tpp + tip]

\* (mutant of MinPrincipal) the principal without the clamp at zero: unpaid
\* interest is added to the balance
MinPrincipalUnclamped(min_payment, interest) == min_payment - interest

\* the principal part of a minimum payment
MinPrincipal(min_payment, interest) == Max(0, min_payment - interest)

\* the body of the "pay minimums" loop for one debt; st carries the locals
PayMinimum(st, debt, m, d) ==
    LET bal == st.balances[debt.id]
        interest == st.interest_this_month[debt.id]
        min_payment == Min(debt.minimum_payment, bal + interest)
        principal == MinPrincipal(min_payment, interest)
        newbal == bal - principal
        tip == st.total_interest_paid + interest
        tpp == st.total_principal_paid + principal
        is_payoff == newbal <= EPSILON
        item == [month |-> m, date |-> d, debt_id |-> debt.id,
                 debt_name |-> debt.name, payment_amount |-> min_payment,
                 principal |-> principal, interest |-> interest,
                 remaining_balance |-> Max(0, newbal),
                 is_payoff_month |-> is_payoff]
    IN  IF bal <= EPSILON THEN st
        ELSE IF st.remaining_budget >= min_payment
        THEN [st EXCEPT
                !.balances[debt.id] = newbal,
                !.remaining_budget = @ - min_payment,
                !.total_interest_paid = tip,
                !.total_principal_paid = tpp,
                !.month_payments = Append(@, item),
                !.payoff_order =
                    IF is_payoff /\ ~InPayoffOrder(@, debt.id)
                    THEN Append(@, PayoffInfo(debt, m, d, tip, tpp))
                    ELSE @]
        ELSE st

RECURSIVE PayMinimums(_, _, _, _, _)
PayMinimums(st, ds, i, m, d) ==
    IF i > Len(ds) THEN st
    ELSE PayMinimums(PayMinimum(st, ds[i], m, d), ds, i + 1, m, d)

\* index in month_payments of the debt's payment, 0 if none
ExistingPayment(mp, id) ==
    IF \E k \in 1..Len(mp) : mp[k].debt_id = id
    THEN CHOOSE k \in 1..Len(mp) :
            /\ mp[k].debt_id = id
            /\ \A j \in 1..(k - 1) : mp[j].debt_id # id
    ELSE 0

\* (mutant of ExtraAmount) the whole leftover budget, not capped at the balance
ExtraAmountUncapped(remaining_budget, bal) == remaining_budget

\* the extra applied to the debt the "apply extra" loop stops at
ExtraAmount(remaining_budget, bal) == Min(remaining_budget, bal)

\* the apply-extra step on one debt
ApplyExtraTo(st, debt, idx, m, d) ==
    LET bal == st.balances[debt.id]
        extra == ExtraAmount(st.remaining_budget, bal)
        newbal == bal - extra
        tpp == st.total_principal_paid + extra
        is_payoff == newbal <= EPSILON
        existing == st.month_payments[idx]
        item == [month |-> m, date |-> d, debt_id |-> debt.id,
                 debt_name |-> debt.name,
                 payment_amount |-> existing.payment_amount + extra,
                 principal |-> existing.principal + extra,
                 interest |-> existing.interest,
                 remaining_balance |-> Max(0, newbal),
                 is_payoff_month |-> is_payoff]
    IN  IF extra > 0
        THEN [st EXCEPT
                !.balances[debt.id] = newbal,
                !.remaining_budget = @ - extra,
                !.total_principal_paid = tpp,
                !.month_payments[idx] = item,
                !.payoff_order =
                    IF is_payoff /\ ~InPayoffOrder(@, debt.id)
                    THEN Append(@, PayoffInfo(debt, m, d, st.total_interest_paid, tpp))
                    ELSE @]
        ELSE st

\* (mutant of ApplyExtra) the loop without its break: budget left after the
\* priority debt goes on to the next open debt
RECURSIVE ApplyExtraCascade(_, _, _, _, _)
ApplyExtraCascade(st, ds, i, m, d) ==
    IF i > Len(ds) THEN st
    ELSE IF st.balances[ds[i].id] <= EPSILON THEN ApplyExtraCascade(st, ds, i + 1, m, d)
    ELSE IF ExistingPayment(st.month_payments, ds[i].id) = 0
         THEN ApplyExtraCascade(st, ds, i + 1, m, d)
    ELSE ApplyExtraCascade(
            ApplyExtraTo(st, ds[i], ExistingPayment(st.month_payments, ds[i].id), m, d),
            ds, i + 1, m, d)

\* the "apply extra" loop from debt i on: skip closed debts and debts without
\* a payment this month, act on the first other one and break
RECURSIVE ApplyExtra(_, _, _, _, _)
ApplyExtra(st, ds, i, m, d) ==
    IF i > Len(ds) THEN st
    ELSE IF st.balances[ds[i].id] <= EPSILON THEN ApplyExtra(st, ds, i + 1, m, d)
    ELSE IF ExistingPayment(st.month_payments, ds[i].id) = 0
         THEN ApplyExtra(st, ds, i + 1, m, d)
    ELSE ApplyExtraTo(st, ds[i], ExistingPayment(st.month_payments, ds[i].id), m, d)

TotalRemaining(bals, ds) ==
    SumSeq([i \in 1..Len(ds) |-> Max(0, bals[ds[i].id])])

AnyOpen(bals) == \E id \in DOMAIN bals : bals[id] > EPSILON

\* (mutant of SimulateGuard) the loop condition without the iteration cap
SimulateGuardNoCap(bals, m) == AnyOpen(bals)

\* the loop condition of _simulate_payoff
SimulateGuard(bals, m) == AnyOpen(bals) /\ m < max_months

\* the locals after one iteration of the while loop
MonthStep(ds, bals, budget, po, tip, tpp, m, d) ==
    LET st0 == [balances |-> bals,
                interest_this_month |->
                    [id \in IdsOf(ds) |->
                        InterestThisMonth(bals, CHOOSE x \in {ds[i] : i \in 1..Len(ds)} : x.id = id)],
                remaining_budget |-> budget,
                month_payments |-> <<>>,
                payoff_order |-> po,
                total_interest_paid |-> tip,
                total_principal_paid |-> tpp]
        st1 == PayMinimums(st0, ds, 1, m, d)
    IN  IF st1.remaining_budget > 0 THEN ApplyExtra(st1, ds, 1, m, d) ELSE st1

----------------------------------------------------------------------------
\* calculate_minimum_only_plan

\* the loop body for one debt: accrue interest, pay the minimum
MinimumOnlyDebt(st, debt) ==
    LET bal == st.balances[debt.id]
        interest == MonthlyInterest(bal, debt.apr)
        payment == Min(debt.minimum_payment, bal + interest)
        principal == payment - interest
    IN  IF bal <= EPSILON THEN st
        ELSE [st EXCEPT
                !.total_interest = @ + interest,
                !.balances[debt.id] = Max(0, bal - principal)]

RECURSIVE MinimumOnlyMonthStep(_, _, _)
MinimumOnlyMonthStep(st, ds, i) ==
    IF i > Len(ds) THEN st
    ELSE MinimumOnlyMonthStep(MinimumOnlyDebt(st, ds[i]), ds, i + 1)

\* the loop condition of calculate_minimum_only_plan
MinimumOnlyGuard(bals, m) == AnyOpen(bals) /\ m < max_months

----------------------------------------------------------------------------
\* Results

EmptyResult(today) ==
    [kind |-> "plan", debt_free_date |-> today, total_months |-> 0,
     total_interest |-> 0, total_paid |-> 0, monthly_payment |-> 0,
     monthly_schedule |-> <<>>, projections |-> <<>>, payoff_order |-> <<>>]

\* (mutant of InitialBalances) balances kept from the previous call, as a
\* dict shared between calls would be
InitialBalancesKept(ds) ==
    IF DOMAIN balances = IdsOf(ds) THEN balances
    ELSE [id \in IdsOf(ds) |-> (CHOOSE x \in {ds[i] : i \in 1..Len(ds)} : x.id = id).balance]

\* the copy of the input balances both simulations start from
InitialBalances(ds) ==
    [id \in IdsOf(ds) |-> (CHOOSE x \in {ds[i] : i \in 1..Len(ds)} : x.id = id).balance]

\* calculate_plan's budget: available + extra, capped, then raised to the minimums
PlanMonthlyPayment(ds, avail, extra) ==
    LET capped == Min(avail + extra, SumSeq(BalancesOf(ds)) + OVERPAY_MARGIN)
        min_payment_total == SumSeq(MinimumsOf(ds))
    IN  IF capped < min_payment_total THEN min_payment_total ELSE capped

----------------------------------------------------------------------------
\* Values the agent handles

\* a decoded JSON scalar, or the absence of its key: t is its type
Num(x) == [t |-> "num", n |-> x, s |-> ""]
Str(x) == [t |-> "str", n |-> 0, s |-> x]
Bool(b) == [t |-> "bool", n |-> IF b THEN 1 ELSE 0, s |-> ""]
Null == [t |-> "null", n |-> 0, s |-> ""]
Absent == [t |-> "absent", n |-> 0, s |-> ""]

\* Python's None where an OptimizationResult is expected
None == [kind |-> "none"]

\* no call of the external model has been made yet
NoResponse == [kind |-> "no_call"]

\* an exception leaving the expression that is being evaluated
Raised == [kind |-> "raise"]

\* AgentPhase
ASSESSMENT == "assessment"
OPTIMIZATION == "optimization"
ACTION_PLANNING == "action_planning"
HABIT_MONITORING == "habit_monitoring"
NEGOTIATION == "negotiation"
RE_ASSESSMENT == "re_assessment"

\* no run is hosted on an event loop
LoopIdle ==
    /\ loop_running = 0
    /\ run_pc = <<>>
    /\ run_attempt = <<>>

\* the orchestrator has not been called
OrchIdle ==
    /\ event_type = ""
    /\ existing_plan = FALSE
    /\ opc = "idle"
    /\ trigger_event = ""
    /\ current_phase = ASSESSMENT
    /\ iteration = 0
    /\ assessment_result = None
    /\ optimization_result = None
    /\ daily_actions_result = None
    /\ milestones_result = None
    /\ negotiation_plans = 0
    /\ workflow_trace = <<>>
    /\ agent_calls = <<>>
    /\ orch_result = None

HostIdle == LoopIdle /\ OrchIdle

----------------------------------------------------------------------------
\* State machine

Init ==
    /\ op \in {"calculate_plan", "calculate_minimum_only_plan"}
    /\ debts \in DebtLists
    /\ IF op = "calculate_plan"
       THEN /\ available_monthly \in Budgets
            /\ strategy \in Strategies
            /\ extra_payment \in ExtraPayments
       ELSE \* calculate_minimum_only_plan takes the debts only
            /\ available_monthly = 0
            /\ strategy = AVALANCHE
            /\ extra_payment = 0
    /\ start_date \in StartDates
    /\ pc = "idle"
    /\ calls = 0
    /\ results = <<>>
    /\ sorted_debts = <<>>
    /\ monthly_payment = 0
    /\ balances = <<>>
    /\ monthly_schedule = <<>>
    /\ projections = <<>>
    /\ payoff_order = <<>>
    /\ total_interest_paid = 0
    /\ total_principal_paid = 0
    /\ month = 0
    /\ current_date = start_date
    /\ mo_balances = <<>>
    /\ total_interest = 0
    /\ mo_month = 0
    \* the agent is not part of these calls
    /\ user_debts = <<>>
    /\ monthly_budget = 0
    /\ requested_strategy = AVALANCHE
    /\ constraints = [extra_payment |-> Absent, start_date |-> start_date]
    /\ apc = "idle"
    /\ strategy_response = NoResponse
    /\ ai_recommendation = None
    /\ resolved_strategy = AVALANCHE
    /\ attempt = 0
    /\ response = NoResponse
    /\ ai_plan = None
    /\ accepted = FALSE
    /\ agent_result = None
    /\ HostIdle

\* calculate_plan on an empty list: the zero result, no simulation
CalculatePlanEmpty ==
    /\ pc = "idle" /\ op = "calculate_plan" /\ calls < MaxCalls
    /\ debts = <<>>
    /\ results' = Append(results, EmptyResult(start_date))
    /\ calls' = calls + 1
    /\ UNCHANGED <<hostVars, inputs, pc, simLocals, moLocals, agentVars>>

\* calculate_plan up to the first test of _simulate_payoff's loop
CalculatePlan ==
    /\ pc = "idle" /\ op = "calculate_plan" /\ calls < MaxCalls
    /\ debts # <<>>
    /\ sorted_debts' = _sort_debts(debts, strategy)
    /\ monthly_payment' = PlanMonthlyPayment(sorted_debts', available_monthly, extra_payment)
    /\ balances' = InitialBalances(sorted_debts')
    /\ monthly_schedule' = <<>>
    /\ projections' = <<>>
    /\ payoff_order' = <<>>
    /\ total_interest_paid' = 0
    /\ total_principal_paid' = 0
    /\ month' = 0
    /\ current_date' = start_date
    /\ calls' = calls + 1
    /\ pc' = "simulate"
    /\ UNCHANGED <<hostVars, inputs, results, moLocals, agentVars>>

\* one iteration of the while loop of _simulate_payoff
SimulateMonth ==
    /\ pc = "simulate"
    /\ SimulateGuard(balances, month)
    /\ LET m == month + 1
           st == MonthStep(sorted_debts, balances, monthly_payment, payoff_order,
                           total_interest_paid, total_principal_paid, m, current_date)
           total_remaining == TotalRemaining(st.balances, sorted_debts)
       IN  /\ month' = m
           /\ balances' = st.balances
           /\ payoff_order' = st.payoff_order
           /\ total_interest_paid' = st.total_interest_paid
           /\ total_principal_paid' = st.total_principal_paid
           /\ monthly_schedule' = Append(monthly_schedule,
                 [month |-> m, date |-> current_date,
                  total_payment |->
                     SumSeq([k \in 1..Len(st.month_payments) |->
                                st.month_payments[k].payment_amount]),
                  payments |-> st.month_payments,
                  total_remaining |-> total_remaining])
           /\ projections' = Append(projections,
                 [month |-> m, date |-> current_date,
                  total_remaining |-> total_remaining,
                  cumulative_interest_paid |-> st.total_interest_paid,
                  cumulative_principal_paid |-> st.total_principal_paid])
           /\ current_date' = NextMonth(current_date)
    /\ UNCHANGED <<hostVars, inputs, pc, calls, results, sorted_debts, monthly_payment, moLocals, agentVars>>

\* the loop of _simulate_payoff ends: the OptimizationResult is returned
ReturnPlan ==
    /\ pc = "simulate"
    /\ ~SimulateGuard(balances, month)
    /\ results' = Append(results,
          [kind |-> "plan", debt_free_date |-> current_date,
           total_months |-> month, total_interest |-> total_interest_paid,
           total_paid |-> total_principal_paid + total_interest_paid,
           monthly_payment |-> monthly_payment,
           monthly_schedule |-> monthly_schedule,
           projections |-> projections, payoff_order |-> payoff_order])
    /\ pc' = "idle"
    /\ UNCHANGED <<hostVars, inputs, calls, simLocals, moLocals, agentVars>>

\* calculate_minimum_only_plan on an empty list returns (0, 0.0)
MinimumOnlyEmpty ==
    /\ pc = "idle" /\ op = "calculate_minimum_only_plan" /\ calls < MaxCalls
    /\ debts = <<>>
    /\ results' = Append(results, [kind |-> "minimum_only", total_months |-> 0,
                                   total_interest |-> 0])
    /\ calls' = calls + 1
    /\ UNCHANGED <<hostVars, inputs, pc, simLocals, moLocals, agentVars>>

\* calculate_minimum_only_plan up to the first test of its loop
CalculateMinimumOnly ==
    /\ pc = "idle" /\ op = "calculate_minimum_only_plan" /\ calls < MaxCalls
    /\ debts # <<>>
    /\ mo_balances' = InitialBalances(debts)
    /\ total_interest' = 0
    /\ mo_month' = 0
    /\ calls' = calls + 1
    /\ pc' = "minimum_only"
    /\ UNCHANGED <<hostVars, inputs, results, simLocals, agentVars>>

\* one iteration of the while loop of calculate_minimum_only_plan
MinimumOnlyMonth ==
    /\ pc = "minimum_only"
    /\ MinimumOnlyGuard(mo_balances, mo_month)
    /\ LET st == MinimumOnlyMonthStep(
                    [balances |-> mo_balances, total_interest |-> total_interest],
                    debts, 1)
       IN  /\ mo_month' = mo_month + 1
           /\ mo_balances' = st.balances
           /\ total_interest' = st.total_interest
    /\ UNCHANGED <<hostVars, inputs, pc, calls, results, simLocals, agentVars>>

\* the loop ends: (month, total_interest) is returned
ReturnMinimumOnly ==
    /\ pc = "minimum_only"
    /\ ~MinimumOnlyGuard(mo_balances, mo_month)
    /\ results' = Append(results, [kind |-> "minimum_only", total_months |-> mo_month,
                                   total_interest |-> total_interest])
    /\ pc' = "idle"
    /\ UNCHANGED <<hostVars, inputs, calls, simLocals, moLocals, agentVars>>

Next ==
    \/ CalculatePlanEmpty
    \/ CalculatePlan
    \/ SimulateMonth
    \/ ReturnPlan
    \/ MinimumOnlyEmpty
    \/ CalculateMinimumOnly
    \/ MinimumOnlyMonth
    \/ ReturnMinimumOnly

Spec == Init /\ [][Next]_vars

----------------------------------------------------------------------------
\* Reading a returned OptimizationResult

Abs(x) == IF x < 0 THEN -x ELSE x

\* the result calculate_plan has just returned for a non-empty debt list
\* (every returned result is the last one in the state its return leads to)
PlanResults ==
    IF pc = "idle" /\ debts # <<>> /\ results # <<>> /\ op = "calculate_plan"
    THEN {results[Len(results)]}
    ELSE {}

InputDebts == {debts[i] : i \in 1..Len(debts)}

\* does the debt have a schedule item in month k of r?
HasItem(r, k, id) ==
    \E j \in 1..Len(r.monthly_schedule[k].payments) :
        r.monthly_schedule[k].payments[j].debt_id = id

\* the months of r in which the debt has a schedule item
MonthsPaid(r, id) == {k \in 1..Len(r.monthly_schedule) : HasItem(r, k, id)}

\* the debt's schedule items in month k of r
ItemsIn(r, k, id) ==
    {r.monthly_schedule[k].payments[j] :
        j \in {i \in 1..Len(r.monthly_schedule[k].payments) :
                 r.monthly_schedule[k].payments[i].debt_id = id}}

ItemIn(r, k, id) == CHOOSE it \in ItemsIn(r, k, id) : TRUE

\* the last month before k in which the debt has an item, 0 if none
RECURSIVE LastPaidBefore(_, _, _)
LastPaidBefore(r, k, id) ==
    IF k <= 1 THEN 0
    ELSE IF HasItem(r, k - 1, id) THEN k - 1
    ELSE LastPaidBefore(r, k - 1, id)

\* what the debt owes when month k of r starts
StartBalance(r, k, d) ==
    LET p == LastPaidBefore(r, k, d.id)
    IN  IF p = 0 THEN d.balance ELSE ItemIn(r, p, d.id).remaining_balance

\* what the debt still owes at the end of r's schedule
FinalBalance(r, d) == StartBalance(r, Len(r.monthly_schedule) + 1, d)

\* the interest accrued on the debt in month k of r
InterestIn(r, k, d) ==
    IF HasItem(r, k, d.id) THEN ItemIn(r, k, d.id).interest
    ELSE IF StartBalance(r, k, d) > EPSILON
         THEN (StartBalance(r, k, d) * d.apr) \div 1200 ELSE 0

\* the debt's minimum for month k: min(minimum_payment, balance + interest)
MonthMinimum(r, k, d) ==
    IF d.minimum_payment <= StartBalance(r, k, d) + InterestIn(r, k, d)
    THEN d.minimum_payment ELSE StartBalance(r, k, d) + InterestIn(r, k, d)

\* what the debt owes in month k once the minimum payments are made
AfterMinimum(r, k, d) ==
    IF HasItem(r, k, d.id) /\ MonthMinimum(r, k, d) > InterestIn(r, k, d)
    THEN StartBalance(r, k, d) - (MonthMinimum(r, k, d) - InterestIn(r, k, d))
    ELSE StartBalance(r, k, d)

\* the debts paid more than their minimum in month k
Accelerated(r, k) ==
    {d \in InputDebts :
        HasItem(r, k, d.id) /\ ItemIn(r, k, d.id).payment_amount > MonthMinimum(r, k, d)}

OpenAfterMinimums(r, k) == {d \in InputDebts : AfterMinimum(r, k, d) > EPSILON}

InputPos(d) == CHOOSE i \in 1..Len(debts) : debts[i] = d

PayoffIds(r) == {r.payoff_order[k].debt_id : k \in 1..Len(r.payoff_order)}

----------------------------------------------------------------------------
\* Claims

\* C1: every result calculate_plan returns for a non-empty debt list has
\* total_paid = total_interest + sum of the input balances, within 0.01 per
\* debt.
C1_Conservation ==
    \A r \in PlanResults :
        Abs(r.total_paid - (r.total_interest + SumSeq(BalancesOf(debts))))
            <= EPSILON * Len(debts)

\* C2: payoff_order of every returned result has exactly one entry per input
\* debt: its ids are the input ids and none appears twice.
C2_Coverage ==
    \A r \in PlanResults :
        /\ PayoffIds(r) = IdsOf(debts)
        /\ Len(r.payoff_order) = Len(debts)

\* C3: calculate_plan returns no ordinary result while a debt still owes
\* more than 0.01 (the run stopped at the 600-month cap).
C3_CapSignalled ==
    \A r \in PlanResults : \A d \in InputDebts : FinalBalance(r, d) <= EPSILON

\* C4: both monthly loops stop after at most 600 iterations: every
\* iteration raises the loop's month counter by one and no counter passes
\* 600, whatever the budget and the minimum payments.
C4_TerminationBound ==
    [][ /\ month' <= max_months
        /\ mo_month' <= max_months
        /\ (pc = "simulate" /\ pc' = "simulate" => month' = month + 1)
        /\ (pc = "minimum_only" /\ pc' = "minimum_only" => mo_month' = mo_month + 1)
      ]_vars

\* a plan run that used all 600 iterations: the budget is below the sum of
\* the minimums and a minimum is below its debt's monthly interest
C4_Witness ==
    /\ pc = "idle" /\ op = "calculate_plan" /\ results # <<>>
    /\ results[1].total_months = max_months
    /\ available_monthly + extra_payment < SumSeq(MinimumsOf(debts))
    /\ \E d \in InputDebts : d.minimum_payment < MonthlyInterest(d.balance, d.apr)

\* C5: in a returned schedule total_remaining never increases: for all
\* months i < j, total_remaining[j] <= total_remaining[i].
C5_Monotonic ==
    \A r \in PlanResults :
        \A i, j \in 1..Len(r.monthly_schedule) :
            i < j => r.monthly_schedule[j].total_remaining
                        <= r.monthly_schedule[i].total_remaining

\* a schedule of several months with a debt whose minimum payment is below
\* its monthly interest, paid in its second month
C5_Witness ==
    \E r \in PlanResults : \E d \in InputDebts :
        /\ Len(r.monthly_schedule) >= 2
        /\ d.minimum_payment < MonthlyInterest(d.balance, d.apr)
        /\ HasItem(r, 2, d.id)
        /\ r.monthly_schedule[2].total_remaining < r.monthly_schedule[1].total_remaining

\* C6: in every month at most one debt is paid more than its minimum for the
\* month, and that debt is open after the minimum payments and first in
\* strategy order among the open debts: none of them has a higher APR
\* (avalanche) or a lower input balance (snowball).
C6_SingleAcceleration ==
    \A r \in PlanResults : \A k \in 1..Len(r.monthly_schedule) :
        /\ Cardinality(Accelerated(r, k)) <= 1
        /\ \A a \in Accelerated(r, k) :
            /\ a \in OpenAfterMinimums(r, k)
            /\ \A d \in OpenAfterMinimums(r, k) :
                /\ strategy = AVALANCHE => a.apr >= d.apr
                /\ strategy = SNOWBALL => a.balance <= d.balance

\* a month in which the accelerated debt is paid off with budget to spare
\* while another debt stays open, and the two strategies disagree on the pair
C6_Witness ==
    \E r \in PlanResults : \E k \in 1..Len(r.monthly_schedule) :
        \E a \in Accelerated(r, k) : \E d \in OpenAfterMinimums(r, k) :
            /\ d # a
            /\ ItemIn(r, k, a.id).is_payoff_month
            /\ r.monthly_schedule[k].total_payment < r.monthly_payment
            /\ (a.apr > d.apr) /\ (a.balance > d.balance)

\* C7 as claimed: avalanche orders by descending APR, ties by descending
\* balance, then input order; snowball by ascending balance, ties by
\* descending APR, then input order.
C7_SortTieBreaks ==
    pc = "simulate" =>
        \A i, j \in 1..Len(sorted_debts) : i < j =>
            LET a == sorted_debts[i]
                b == sorted_debts[j]
            IN  IF strategy = AVALANCHE
                THEN \/ a.apr > b.apr
                     \/ a.apr = b.apr /\ a.balance > b.balance
                     \/ a.apr = b.apr /\ a.balance = b.balance /\ InputPos(a) < InputPos(b)
                ELSE \/ a.balance < b.balance
                     \/ a.balance = b.balance /\ a.apr > b.apr
                     \/ a.balance = b.balance /\ a.apr = b.apr /\ InputPos(a) < InputPos(b)

\* C7 amended: _sort_debts returns the input debts ordered by descending APR
\* (avalanche) or ascending balance (snowball), ties in input order.
C7_SortStable ==
    pc = "simulate" =>
        /\ Len(sorted_debts) = Len(debts)
        /\ {sorted_debts[i] : i \in 1..Len(sorted_debts)} = InputDebts
        /\ \A i, j \in 1..Len(sorted_debts) : i < j =>
            LET a == sorted_debts[i]
                b == sorted_debts[j]
            IN  IF strategy = AVALANCHE
                THEN \/ a.apr > b.apr
                     \/ a.apr = b.apr /\ InputPos(a) < InputPos(b)
                ELSE \/ a.balance < b.balance
                     \/ a.balance = b.balance /\ InputPos(a) < InputPos(b)

\* an APR tie under avalanche left in input order, smaller balance first
C7_Witness ==
    /\ pc = "simulate" /\ strategy = AVALANCHE
    /\ \E i, j \in 1..Len(sorted_debts) :
        /\ i < j
        /\ sorted_debts[i].apr = sorted_debts[j].apr
        /\ sorted_debts[i].balance < sorted_debts[j].balance

\* C8: no schedule item has a negative remaining_balance or a payment above
\* the debt's balance at the start of the month plus the month's interest on
\* it, and a month's total payment is at most the sum of these over the debts.
C8_NeverOverpaid ==
    \A r \in PlanResults : \A k \in 1..Len(r.monthly_schedule) :
        /\ \A j \in 1..Len(r.monthly_schedule[k].payments) :
            LET it == r.monthly_schedule[k].payments[j]
            IN  /\ it.remaining_balance >= 0
                /\ \A d \in InputDebts : d.id = it.debt_id =>
                        it.payment_amount <= StartBalance(r, k, d) + it.interest
        /\ r.monthly_schedule[k].total_payment <=
              SumSeq([i \in 1..Len(debts) |->
                        StartBalance(r, k, debts[i]) + InterestIn(r, k, debts[i])])

\* an accelerated debt paid exactly what it owed, balance plus interest,
\* although more budget was left
C8_Witness ==
    \E r \in PlanResults : \E k \in 1..Len(r.monthly_schedule) :
        \E a \in Accelerated(r, k) :
            /\ ItemIn(r, k, a.id).payment_amount
                  = StartBalance(r, k, a) + ItemIn(r, k, a.id).interest
            /\ ItemIn(r, k, a.id).remaining_balance = 0
            /\ r.monthly_schedule[k].total_payment < r.monthly_payment

\* C9: every debt with schedule items has is_payoff_month on exactly one of
\* them, the item of the first month its remaining balance is at most 0.01;
\* this is the debt's last item and payoff_order has an entry for the debt
\* with that month.
C9_PayoffOnce ==
    \A r \in PlanResults : \A d \in InputDebts :
        MonthsPaid(r, d.id) # {} =>
            LET marked == {k \in MonthsPaid(r, d.id) : ItemIn(r, k, d.id).is_payoff_month}
                paid == {k \in MonthsPaid(r, d.id) :
                            ItemIn(r, k, d.id).remaining_balance <= EPSILON}
            IN  /\ Cardinality(marked) = 1
                /\ \A k \in marked :
                    /\ k \in paid /\ \A p \in paid : k <= p
                    /\ \A p \in MonthsPaid(r, d.id) : p <= k
                    /\ \E e \in 1..Len(r.payoff_order) :
                        /\ r.payoff_order[e].debt_id = d.id
                        /\ r.payoff_order[e].payoff_month = k

\* C10: calls of calculate_plan on the same inputs return the same result.
C10_Idempotent ==
    \A i, j \in 1..Len(results) :
        (results[i].kind = "plan" /\ results[j].kind = "plan") => results[i] = results[j]

\* two calls returned a schedule of several months with a payoff
C10_Witness ==
    /\ pc = "idle" /\ Len(results) >= 2
    /\ results[1].kind = "plan" /\ results[2].kind = "plan"
    /\ Len(results[2].monthly_schedule) >= 2
    /\ Len(results[2].payoff_order) >= 1

----------------------------------------------------------------------------
\* OptimizationAgent: inputs

\* the default of OptimizationAgent(max_retries=3)
max_retries == 3
\* the APR above which the advisor's heuristic picks avalanche
APR_THRESHOLD == 15
\* 1.0, the largest final total_remaining the validator accepts
FINAL_TOLERANCE == 1000

PoolDebt(id) == CHOOSE d \in DebtPool : d.id = id

\* a DebtResponse of the caller
DebtResponseOf(id, paid) ==
    [id |-> id, creditor_name |-> PoolDebt(id).name, balance |-> PoolDebt(id).balance,
     apr |-> PoolDebt(id).apr, minimum_payment |-> PoolDebt(id).minimum_payment,
     is_paid_off |-> paid]

\* debt lists a caller passes; every list has an active debt, the last one
\* also a debt already paid off whose APR is the highest of the list
UserDebtLists == {
    << DebtResponseOf("card", FALSE) >>,
    << DebtResponseOf("card", FALSE), DebtResponseOf("auto", FALSE) >>,
    << DebtResponseOf("auto", FALSE), DebtResponseOf("card", TRUE) >>
}

AgentBudgets == {Cur(60), Cur(200)}
RequestedStrategies == {"avalanche", "snowball", "auto", "AUTO", "minimize_debt"}
ConstraintExtras == {Absent, Num(Cur(50))}

\* str.lower() on the strategy names in use
Lower(str) ==
    CASE str = "AUTO" -> "auto"
      [] str = "Avalanche" -> "avalanche"
      [] str = "Snowball" -> "snowball"
      [] OTHER -> str

\* the debts with "not debt.is_paid_off"
ActiveDebts(ds) == SelectSeq(ds, LAMBDA d : ~d.is_paid_off)

\* debt_infos of _optimize_plan: a DebtInfo per active debt, in input order
DebtInfosOf(ds) ==
    [i \in 1..Len(ActiveDebts(ds)) |->
        [id |-> ActiveDebts(ds)[i].id, name |-> ActiveDebts(ds)[i].creditor_name,
         balance |-> ActiveDebts(ds)[i].balance, apr |-> ActiveDebts(ds)[i].apr,
         minimum_payment |-> ActiveDebts(ds)[i].minimum_payment]]

----------------------------------------------------------------------------
\* The strategy advisor

\* What the external model does on the strategy call.  kind "raise": the
\* call raises.  Otherwise it returns a text: json says whether the text
\* between the first "{" and the last "}" is missing ("none"), is rejected
\* by json.loads ("malformed") or decodes to an object, whose keys strategy
\* and suggested_extra_payment follow; mentions_avalanche says whether the
\* lower-cased text contains "avalanche".
StrategyReply(k, j, m, st, sx) ==
    [kind |-> k, json |-> j, mentions_avalanche |-> m, strategy |-> st,
     suggested_extra_payment |-> sx]

StrategyResponses ==
    { StrategyReply("raise", "none", FALSE, Absent, Absent),
      StrategyReply("text", "none", TRUE, Absent, Absent),
      StrategyReply("text", "none", FALSE, Absent, Absent),
      StrategyReply("text", "malformed", FALSE, Absent, Absent),
      StrategyReply("text", "object", FALSE, Str("hybrid"), Num(Cur(20))),
      StrategyReply("text", "object", TRUE, Str("Avalanche"), Absent),
      StrategyReply("text", "object", FALSE, Absent, Absent),
      StrategyReply("text", "object", FALSE, Null, Null) }
    \cup { StrategyReply("text", "object", st = AVALANCHE, Str(st), sx) :
              st \in Strategies,
              sx \in {Absent, Num(Cur(20)), Null, Str("100")} }

\* a recommendation dict: its strategy and its suggested_extra_payment key
Recommendation(st, sx) == [strategy |-> st, suggested_extra_payment |-> sx]

\* _parse_strategy_response; an exception of json.loads is caught inside
_parse_strategy_response(r) ==
    IF r.json = "malformed"
    THEN Recommendation(AVALANCHE, Absent)
    ELSE IF /\ r.json = "object"
            /\ r.strategy.t = "str"
            /\ r.strategy.s \in {"avalanche", "snowball"}
         THEN Recommendation(r.strategy.s, r.suggested_extra_payment)
         ELSE IF r.mentions_avalanche
              THEN Recommendation(AVALANCHE, Absent)
              ELSE Recommendation(SNOWBALL, Absent)

RECURSIVE MaxApr(_)
\* max((d.apr ...), default=0)
MaxApr(ds) == IF ds = <<>> THEN 0 ELSE Max(Head(ds).apr, MaxApr(Tail(ds)))

\* the except branch of _get_ai_strategy_recommendation
HeuristicRecommendation(ds, budget) ==
    Recommendation(
        IF MaxApr(ActiveDebts(ds)) > APR_THRESHOLD THEN AVALANCHE ELSE SNOWBALL,
        Num(Max(0, budget - SumSeq(MinimumsOf(ActiveDebts(ds)))) \div 10))

\* avg_apr divides by the number of active debts, before the try
AvgAprRaises(ds) == ds # <<>> /\ ActiveDebts(ds) = <<>>

\* _get_ai_strategy_recommendation, given what the external model does
_get_ai_strategy_recommendation(ds, budget, r) ==
    IF r.kind = "raise"
    THEN HeuristicRecommendation(ds, budget)
    ELSE _parse_strategy_response(r)

----------------------------------------------------------------------------
\* What the external model returns on a plan-generation call

\* ISO texts of the dates in use, for date.fromisoformat and strftime
IsoDates ==
    { [s |-> "2026-11-01", d |-> Date(2026, 11)],
      [s |-> "2026-12-01", d |-> Date(2026, 12)],
      [s |-> "2027-01-01", d |-> Date(2027, 1)] }

IsIsoDate(str) == \E e \in IsoDates : e.s = str
fromisoformat(str) == (CHOOSE e \in IsoDates : e.s = str).d
isoformat(d) == (CHOOSE e \in IsoDates : e.d = d).s

\* How a candidate plan departs from a plan that pays every debt in two
\* months: po is its payoff_order (full, empty, one debt missing, one id
\* too many, one id replaced, one id twice, an entry without payoff_month),
\* markers its is_payoff_month flags (on every debt's last payment, nowhere,
\* also on the first debt's first payment, on the first debt only), final
\* the total_remaining of its last month, totals its total_paid (balances
\* plus interest, one cent, a text) and shape a defect of another field
\* (negative_line: the first debt's first payment has a negative principal;
\* mistyped_line: the last debt's first payment has a text as its amount).
CandidateKnobs ==
    [po : {"full", "empty", "missing", "extra", "swap", "dup", "nokey"},
     markers : {"all", "none", "early", "partial"},
     final : {0, Cur(5)},
     totals : {"conserving", "off", "mistyped"},
     shape : {"ok"}]
    \cup
    [po : {"full", "empty"}, markers : {"all"}, final : {0},
     totals : {"conserving"},
     shape : {"no_schedule", "bad_date", "no_debt_free_date", "no_item_id",
              "zero_months", "negative_line", "mistyped_line"}]

\* the interest a candidate charges a debt in its first month
CandidateInterest(debt) == MonthlyInterest(debt.balance, debt.apr)

\* the payment object of debt number i of ds in month m (1 or 2)
CandidatePayment(ds, i, m, k) ==
    LET half == ds[i].balance \div 2
        marked == \/ k.markers = "all" /\ m = 2
                  \/ k.markers = "early" /\ (m = 2 \/ i = 1)
                  \/ k.markers = "partial" /\ m = 2 /\ i = 1
    IN  [debt_id |-> IF k.shape = "no_item_id" THEN Absent ELSE Str(ds[i].id),
         debt_name |-> Str(ds[i].name),
         payment_amount |-> IF k.shape = "mistyped_line" /\ m = 1 /\ i = Len(ds)
                            THEN Str("fifty")
                            ELSE Num(IF m = 1 THEN half + CandidateInterest(ds[i])
                                     ELSE ds[i].balance - half),
         principal |-> Num(IF m = 1
                           THEN (IF k.shape = "negative_line" /\ i = 1 THEN 0 - half
                                 ELSE half)
                           ELSE ds[i].balance - half),
         interest |-> Num(IF m = 1 THEN CandidateInterest(ds[i]) ELSE 0),
         remaining_balance |-> Num(IF m = 1 THEN ds[i].balance - half ELSE 0),
         is_payoff_month |-> IF marked THEN Bool(TRUE) ELSE Absent]

\* the month object of month m
CandidateMonth(ds, sd, m, k) ==
    LET pays == [i \in 1..Len(ds) |-> CandidatePayment(ds, i, m, k)]
    IN  [month |-> Num(m),
         date |-> IF k.shape = "bad_date" /\ m = 2 THEN Str("next month")
                  ELSE Str(isoformat(IF m = 1 THEN sd ELSE NextMonth(sd))),
         payments |-> pays,
         total_payment |-> Num(SumSeq([i \in 1..Len(ds) |-> pays[i].payment_amount.n])),
         total_remaining |->
            Num(IF m = 1 THEN SumSeq([i \in 1..Len(ds) |-> pays[i].remaining_balance.n])
                ELSE k.final)]

\* an entry of payoff_order
CandidatePayoff(id, name, m) ==
    [debt_id |-> Str(id), debt_name |-> Str(name), payoff_month |-> m,
     total_interest |-> Num(0)]

CandidatePayoffOrder(ds, k) ==
    LET full == [i \in 1..Len(ds) |-> CandidatePayoff(ds[i].id, ds[i].name, Num(2))]
        ghost == CandidatePayoff("ghost", "Ghost", Num(2))
    IN  CASE k.po = "full" -> full
          [] k.po = "empty" -> <<>>
          [] k.po = "missing" -> SubSeq(full, 1, Len(full) - 1)
          [] k.po = "extra" -> Append(full, ghost)
          [] k.po = "swap" -> <<ghost>> \o Tail(full)
          [] k.po = "dup" -> <<Head(full)>> \o full
          [] k.po = "nokey" -> <<[Head(full) EXCEPT !.payoff_month = Absent]>> \o Tail(full)

\* the decoded JSON object of a candidate for the debts ds from date sd
CandidateData(ds, sd, k) ==
    LET interest == SumSeq([i \in 1..Len(ds) |-> CandidateInterest(ds[i])])
        paid == SumSeq(BalancesOf(ds)) + interest
    IN  [debt_free_date |-> IF k.shape = "no_debt_free_date" THEN Absent
                            ELSE Str(isoformat(NextMonth(sd))),
         monthly_schedule |-> IF k.shape = "no_schedule" THEN <<>>
                              ELSE <<CandidateMonth(ds, sd, 1, k), CandidateMonth(ds, sd, 2, k)>>,
         payoff_order |-> CandidatePayoffOrder(ds, k),
         total_months |-> Num(IF k.shape = "zero_months" THEN 0 ELSE 2),
         total_interest |-> Num(interest),
         total_paid |-> CASE k.totals = "conserving" -> Num(paid)
                          [] k.totals = "off" -> Num(EPSILON)
                          [] k.totals = "mistyped" -> Str("a lot"),
         monthly_payment |-> Num(paid \div 2)]

\* What the external model does on a plan call.  kind "raise": the call
\* raises; "no_json": a text without "{...}"; "bad_json": json.loads
\* rejects the text; "json": the text decodes to the object data.
PlanReply(k, d) == [kind |-> k, data |-> d]

\* the object {} where no object was decoded
NoData ==
    [debt_free_date |-> Absent, monthly_schedule |-> <<>>, payoff_order |-> <<>>,
     total_months |-> Absent, total_interest |-> Absent, total_paid |-> Absent,
     monthly_payment |-> Absent]

PlanResponses(ds, sd) ==
    { PlanReply("raise", NoData), PlanReply("no_json", NoData), PlanReply("bad_json", NoData) }
    \cup { PlanReply("json", CandidateData(ds, sd, k)) : k \in CandidateKnobs }

----------------------------------------------------------------------------
\* _parse_ai_plan_response

\* isinstance(v, (int, float)) for a value read with .get(key, 0)
IsNumberOr0(v) == v.t \in {"num", "absent"}

\* one payment object: the PaymentScheduleItem, or "skip" where the code
\* continues with the next one (a value that is not a number; a KeyError
\* or a pydantic ValidationError caught by the inner try)
ParsePayment(pay, month_num, month_date) ==
    IF \/ ~IsNumberOr0(pay.payment_amount) \/ ~IsNumberOr0(pay.principal)
       \/ ~IsNumberOr0(pay.interest) \/ ~IsNumberOr0(pay.remaining_balance)
       \/ pay.debt_id.t # "str" \/ pay.debt_name.t # "str"
       \/ pay.is_payoff_month.t \notin {"bool", "absent"}
    THEN [kind |-> "skip"]
    ELSE [kind |-> "item", month |-> month_num, date |-> month_date,
          debt_id |-> pay.debt_id.s, debt_name |-> pay.debt_name.s,
          payment_amount |-> pay.payment_amount.n, principal |-> pay.principal.n,
          interest |-> pay.interest.n, remaining_balance |-> pay.remaining_balance.n,
          is_payoff_month |-> pay.is_payoff_month.n = 1]

\* the fields of a PaymentScheduleItem
ItemOf(x) ==
    [month |-> x.month, date |-> x.date, debt_id |-> x.debt_id,
     debt_name |-> x.debt_name, payment_amount |-> x.payment_amount,
     principal |-> x.principal, interest |-> x.interest,
     remaining_balance |-> x.remaining_balance, is_payoff_month |-> x.is_payoff_month]

RECURSIVE ParsePayments(_, _, _, _)
\* the payments loop of one month: the items that were not skipped
ParsePayments(pays, i, month_num, month_date) ==
    IF i > Len(pays) THEN <<>>
    ELSE LET x == ParsePayment(pays[i], month_num, month_date)
             rest == ParsePayments(pays, i + 1, month_num, month_date)
         IN  IF x.kind = "skip" THEN rest ELSE <<ItemOf(x)>> \o rest

\* one month object: [kind |-> "ok", breakdown |-> MonthlyBreakdown],
\* None where the code returns None, Raised where fromisoformat raises
ParseMonth(md) ==
    IF md.month.t # "num" \/ md.month.n <= 0 THEN None
    ELSE IF md.date.t # "str" THEN None
    ELSE IF ~IsIsoDate(md.date.s) THEN Raised
    ELSE LET payments == ParsePayments(md.payments, 1, md.month.n, fromisoformat(md.date.s))
         IN  IF payments = <<>> THEN None
             ELSE IF ~IsNumberOr0(md.total_payment) \/ md.total_payment.n < 0 THEN None
             ELSE IF ~IsNumberOr0(md.total_remaining) \/ md.total_remaining.n < 0 THEN None
             ELSE [kind |-> "ok",
                   breakdown |-> [month |-> md.month.n, date |-> fromisoformat(md.date.s),
                                  total_payment |-> md.total_payment.n,
                                  payments |-> payments,
                                  total_remaining |-> md.total_remaining.n]]

RECURSIVE ParseSchedule(_, _, _)
\* the monthly_schedule loop: [kind |-> "ok", schedule |-> ...], None or Raised
ParseSchedule(mds, i, acc) ==
    IF i > Len(mds) THEN [kind |-> "ok", schedule |-> acc]
    ELSE LET x == ParseMonth(mds[i])
         IN  IF x.kind # "ok" THEN x
             ELSE ParseSchedule(mds, i + 1, Append(acc, x.breakdown))

\* projections generated from the parsed schedule
ProjectionsOf(sched) ==
    [k \in 1..Len(sched) |->
        [month |-> sched[k].month, date |-> sched[k].date,
         total_remaining |-> sched[k].total_remaining,
         cumulative_interest_paid |->
            SumSeq([j \in 1..k |->
                SumSeq([q \in 1..Len(sched[j].payments) |-> sched[j].payments[q].interest])]),
         cumulative_principal_paid |->
            SumSeq([j \in 1..k |->
                SumSeq([q \in 1..Len(sched[j].payments) |-> sched[j].payments[q].principal])])]]

RECURSIVE AllItems(_)
\* the payments of the schedule in the order the loops visit them
AllItems(sched) ==
    IF sched = <<>> THEN <<>> ELSE Head(sched).payments \o AllItems(Tail(sched))

\* sum of the interest of a debt's payments
InterestOfDebt(items, id) ==
    SumSeq([q \in 1..Len(items) |-> IF items[q].debt_id = id THEN items[q].interest ELSE 0])

\* (mutant of FirstMarkers) the month of a debt's last marker wins
RECURSIVE LastMarkers(_, _, _)
LastMarkers(items, i, acc) ==
    IF i > Len(items) THEN acc
    ELSE LET it == items[i]
             entry == [debt_id |-> Str(it.debt_id), debt_name |-> Str(it.debt_name),
                       payoff_month |-> Num(it.month),
                       total_interest |-> Num(InterestOfDebt(items, it.debt_id))]
             kept == SelectSeq(acc, LAMBDA e : e.debt_id.s # it.debt_id)
         IN  LastMarkers(items, i + 1,
                         IF it.is_payoff_month THEN Append(kept, entry) ELSE acc)

RECURSIVE FirstMarkers(_, _, _)
\* the reconstruction of payoff_order: debt_payoffs keeps, in insertion
\* order, one entry per debt with a marker, made at its first marker
FirstMarkers(items, i, acc) ==
    IF i > Len(items) THEN acc
    ELSE LET it == items[i]
             entry == [debt_id |-> Str(it.debt_id), debt_name |-> Str(it.debt_name),
                       payoff_month |-> Num(it.month),
                       total_interest |-> Num(InterestOfDebt(items, it.debt_id))]
             seen == \E q \in 1..Len(acc) : acc[q].debt_id.s = it.debt_id
         IN  FirstMarkers(items, i + 1,
                          IF it.is_payoff_month /\ ~seen THEN Append(acc, entry) ELSE acc)

\* payoff_data_list: the payoff_order of the response, or, when that is
\* empty and a schedule was parsed, the reconstruction
PayoffDataList(data, sched) ==
    IF data.payoff_order = <<>> /\ sched # <<>>
    THEN FirstMarkers(AllItems(sched), 1, <<>>)
    ELSE data.payoff_order

\* one entry of payoff_data_list: the DebtPayoffInfo, or Raised (KeyError
\* on payoff_month, TypeError on its comparison, pydantic ValidationError)
ParsePayoff(e, sched, sd) ==
    IF e.payoff_month.t # "num" \/ e.debt_id.t # "str" \/ e.debt_name.t # "str"
       \/ e.total_interest.t \notin {"num", "absent"}
    THEN Raised
    ELSE [kind |-> "ok",
          info |-> [debt_id |-> e.debt_id.s, debt_name |-> e.debt_name.s,
                    payoff_month |-> e.payoff_month.n,
                    payoff_date |-> IF e.payoff_month.n > 0 /\ e.payoff_month.n <= Len(sched)
                                    THEN sched[e.payoff_month.n].date
                                    ELSE sd,
                    total_interest_paid |-> e.total_interest.n,
                    total_paid |-> 0]]

\* isinstance(v, (int, float)) for a value read with .get(key)
IsNumber(v) == v.t = "num"

\* the body of the try of _parse_ai_plan_response: the OptimizationResult,
\* None, or Raised when an exception leaves the body
ParseBody(r, sd) ==
    IF r.kind = "no_json" THEN None
    ELSE IF r.kind = "bad_json" THEN Raised
    ELSE LET data == r.data
             parsed == ParseSchedule(data.monthly_schedule, 1, <<>>)
             sched == parsed.schedule
             list == PayoffDataList(data, sched)
             infos == [q \in 1..Len(list) |-> ParsePayoff(list[q], sched, sd)]
         IN  IF data.debt_free_date.t \in {"absent", "null"} THEN None
             ELSE IF data.debt_free_date.t # "str" THEN None
             ELSE IF data.debt_free_date.s = "" THEN None
             ELSE IF ~IsIsoDate(data.debt_free_date.s) THEN Raised
             ELSE IF parsed.kind # "ok" THEN parsed
             ELSE IF list = <<>> THEN None
             ELSE IF \E q \in 1..Len(list) : infos[q].kind # "ok" THEN Raised
             ELSE IF ~IsNumber(data.total_months) \/ data.total_months.n <= 0 THEN None
             ELSE IF ~IsNumber(data.total_interest) \/ data.total_interest.n < 0 THEN None
             ELSE IF ~IsNumber(data.total_paid) \/ data.total_paid.n <= 0 THEN None
             ELSE IF ~IsNumber(data.monthly_payment) \/ data.monthly_payment.n <= 0 THEN None
             ELSE [kind |-> "plan",
                   debt_free_date |-> fromisoformat(data.debt_free_date.s),
                   total_months |-> data.total_months.n,
                   total_interest |-> data.total_interest.n,
                   total_paid |-> data.total_paid.n,
                   monthly_payment |-> data.monthly_payment.n,
                   monthly_schedule |-> sched,
                   projections |-> ProjectionsOf(sched),
                   payoff_order |-> [q \in 1..Len(list) |-> infos[q].info]]

\* (mutant of _parse_ai_plan_response) no try around the body
ParseUncaught(r, sd) == ParseBody(r, sd)

\* _parse_ai_plan_response: "except Exception" turns a raise into None
_parse_ai_plan_response(r, sd) ==
    LET body == ParseBody(r, sd)
    IN  IF body = Raised THEN None ELSE body

----------------------------------------------------------------------------
\* _validate_ai_plan

PlanPayoffIds(plan) == {plan.payoff_order[q].debt_id : q \in 1..Len(plan.payoff_order)}

\* (mutant of FinalRemainingOk) no test of the last month's total_remaining
FinalRemainingAny(plan) == plan.monthly_schedule # <<>>

\* the check "final balance is near zero", false on an empty schedule
FinalRemainingOk(plan) ==
    /\ plan.monthly_schedule # <<>>
    /\ plan.monthly_schedule[Len(plan.monthly_schedule)].total_remaining <= FINAL_TOLERANCE

\* (mutant of PayoffIdsMatch) every input debt is listed; other ids are let through
PayoffIdsCover(plan, ds) == IdsOf(ds) \subseteq PlanPayoffIds(plan)

\* the check "all debts are in payoff order": equality of the two id sets
PayoffIdsMatch(plan, ds) == IdsOf(ds) = PlanPayoffIds(plan)

\* _validate_ai_plan; nothing in its try raises on a parsed plan
_validate_ai_plan(plan, ds) ==
    IF plan = None THEN FALSE
    ELSE IF plan.total_months <= 0 THEN FALSE
    ELSE IF plan.total_interest < 0 THEN FALSE
    ELSE IF ~PayoffIdsMatch(plan, ds) THEN FALSE
    ELSE FinalRemainingOk(plan)

----------------------------------------------------------------------------
\* State machine of optimize_repayment_plan

\* constraints.get("extra_payment", 0.0), when it is a number
ExtraOf(c) == IF c.extra_payment.t = "absent" THEN 0 ELSE c.extra_payment.n

\* "monthly_budget + extra_payment - total_minimum" raises TypeError when
\* extra_payment is None or a str
AvailableExtraRaises(c) == c.extra_payment.t \notin {"num", "absent"}

\* the RepaymentStrategy _optimize_plan parses from the strategy name
RepaymentStrategyOf(name) == IF Lower(name) = "avalanche" THEN AVALANCHE ELSE SNOWBALL

\* what optimize_repayment_plan returns
AgentResult(plan, explanation, name) ==
    [kind |-> "result", plan |-> plan, ai_explanation |-> explanation,
     strategy |-> Lower(name)]

AgentInit ==
    /\ user_debts \in UserDebtLists
    /\ monthly_budget \in AgentBudgets
    /\ requested_strategy \in RequestedStrategies
    /\ constraints \in [extra_payment : ConstraintExtras, start_date : StartDates]
    /\ apc = "called"
    /\ strategy_response = NoResponse
    /\ ai_recommendation = None
    /\ resolved_strategy = requested_strategy
    /\ attempt = 0
    /\ response = NoResponse
    /\ ai_plan = None
    /\ accepted = FALSE
    /\ agent_result = None
    /\ HostIdle
    \* calculate_plan has not been called
    /\ op = "optimize_repayment_plan"
    /\ debts = <<>>
    /\ available_monthly = 0
    /\ strategy = AVALANCHE
    /\ extra_payment = 0
    /\ start_date = constraints.start_date
    /\ pc = "idle"
    /\ calls = 0
    /\ results = <<>>
    /\ sorted_debts = <<>>
    /\ monthly_payment = 0
    /\ balances = <<>>
    /\ monthly_schedule = <<>>
    /\ projections = <<>>
    /\ payoff_order = <<>>
    /\ total_interest_paid = 0
    /\ total_principal_paid = 0
    /\ month = 0
    /\ current_date = start_date
    /\ mo_balances = <<>>
    /\ total_interest = 0
    /\ mo_month = 0

\* strategy "auto": _get_ai_strategy_recommendation calls the external
\* model and returns a recommendation, or raises before its try
GetStrategyRecommendation ==
    /\ apc = "called"
    /\ Lower(requested_strategy) = "auto"
    /\ \E r \in StrategyResponses :
          /\ strategy_response' = r
          /\ IF AvgAprRaises(user_debts)
             THEN /\ ai_recommendation' = Raised
                  /\ agent_result' = Raised
                  /\ apc' = "raised"
             ELSE /\ ai_recommendation' =
                        _get_ai_strategy_recommendation(user_debts, monthly_budget, r)
                  /\ agent_result' = agent_result
                  /\ apc' = "advised"
    /\ UNCHANGED <<hostVars, inputs, pc, calls, results, simLocals, moLocals, agentInputs,
                   resolved_strategy, attempt, response, ai_plan, accepted>>

\* _optimize_plan from the recommendation (or from a named strategy) to the
\* retry loop of _generate_ai_plan; the suggested extra payment is written
\* into the caller's constraints; the advisor's values are not read again
OptimizePlan ==
    /\ \/ apc = "called" /\ Lower(requested_strategy) # "auto"
       \/ apc = "advised"
    /\ LET auto == apc = "advised"
           newc == IF /\ auto
                      /\ ai_recommendation.suggested_extra_payment.t # "absent"
                      /\ constraints.extra_payment.t = "absent"
                   THEN [constraints EXCEPT
                            !.extra_payment = ai_recommendation.suggested_extra_payment]
                   ELSE constraints
       IN  /\ resolved_strategy' =
                IF auto THEN ai_recommendation.strategy ELSE requested_strategy
           /\ constraints' = newc
           /\ IF AvailableExtraRaises(newc)
              THEN apc' = "raised" /\ agent_result' = Raised
              ELSE apc' = "generate" /\ agent_result' = agent_result
    /\ strategy_response' = NoResponse
    /\ ai_recommendation' = None
    /\ UNCHANGED <<hostVars, inputs, pc, calls, results, simLocals, moLocals, user_debts,
                   monthly_budget, requested_strategy, attempt, response, ai_plan,
                   accepted>>

\* (mutant of AttemptsLeft) a loop that retries until a plan is accepted
AttemptsLeftAlways(n) == TRUE

\* "for attempt in range(1, self.max_retries + 1)": n attempts were made
AttemptsLeft(n) == n < max_retries

\* one attempt of the retry loop: the call of the external model, the
\* parse and the validation; a raising call leaves no plan
Attempt ==
    /\ apc = "generate"
    /\ AttemptsLeft(attempt)
    /\ \E r \in PlanResponses(DebtInfosOf(user_debts), constraints.start_date) :
          LET plan == IF r.kind = "raise" THEN None
                      ELSE _parse_ai_plan_response(r, constraints.start_date)
          IN  /\ response' = r
              /\ ai_plan' = plan
              /\ accepted' = (/\ plan.kind = "plan"
                              /\ _validate_ai_plan(plan, DebtInfosOf(user_debts)))
    /\ attempt' = attempt + 1
    /\ apc' = "validated"
    /\ UNCHANGED <<hostVars, inputs, pc, calls, results, simLocals, moLocals, agentInputs,
                   strategy_response, ai_recommendation, resolved_strategy,
                   agent_result>>

\* the attempt's plan passed the validator: it is returned
ReturnAiPlan ==
    /\ apc = "validated"
    /\ accepted
    /\ agent_result' = AgentResult(ai_plan, "ai", resolved_strategy)
    /\ apc' = "returned"
    /\ UNCHANGED <<hostVars, inputs, pc, calls, results, simLocals, moLocals, agentInputs,
                   strategy_response, ai_recommendation, resolved_strategy, attempt,
                   response, ai_plan, accepted>>

\* the attempt failed: sleep and continue while attempts are left, else
\* the loop ends; the next iteration overwrites response and ai_plan
Retry ==
    /\ apc = "validated"
    /\ ~accepted
    /\ apc' = IF AttemptsLeft(attempt) THEN "generate" ELSE "exhausted"
    /\ response' = NoResponse
    /\ ai_plan' = None
    /\ UNCHANGED <<hostVars, inputs, pc, calls, results, simLocals, moLocals, agentInputs,
                   strategy_response, ai_recommendation, resolved_strategy, attempt,
                   accepted, agent_result>>

\* (mutant of FallbackArgs) the extra payment is not handed on
FallbackArgsNoExtra(ds, budget, strat, extra, sd) ==
    [debts |-> ds, available_monthly |-> budget, strategy |-> strat,
     extra_payment |-> 0, start_date |-> sd]

\* the arguments _fallback_to_math_calculation hands to calculate_plan
FallbackArgs(ds, budget, strat, extra, sd) ==
    [debts |-> ds, available_monthly |-> budget, strategy |-> strat,
     extra_payment |-> extra, start_date |-> sd]

\* the loop ended without an accepted plan: _fallback_to_math_calculation
\* calls calculate_plan, here up to the first test of the simulation loop
FallbackToMath ==
    /\ apc = "exhausted"
    /\ pc = "idle"
    /\ LET args == FallbackArgs(DebtInfosOf(user_debts), monthly_budget,
                                RepaymentStrategyOf(resolved_strategy),
                                ExtraOf(constraints), constraints.start_date)
       IN  /\ debts' = args.debts
           /\ available_monthly' = args.available_monthly
           /\ strategy' = args.strategy
           /\ extra_payment' = args.extra_payment
           /\ start_date' = args.start_date
           /\ IF args.debts = <<>>
              THEN /\ results' = Append(results, EmptyResult(args.start_date))
                   /\ pc' = "idle"
                   /\ UNCHANGED simLocals
              ELSE /\ sorted_debts' = _sort_debts(args.debts, args.strategy)
                   /\ monthly_payment' = PlanMonthlyPayment(sorted_debts',
                            args.available_monthly, args.extra_payment)
                   /\ balances' = InitialBalances(sorted_debts')
                   /\ monthly_schedule' = <<>>
                   /\ projections' = <<>>
                   /\ payoff_order' = <<>>
                   /\ total_interest_paid' = 0
                   /\ total_principal_paid' = 0
                   /\ month' = 0
                   /\ current_date' = args.start_date
                   /\ pc' = "simulate"
                   /\ results' = results
    /\ calls' = calls + 1
    /\ apc' = "fallback"
    /\ UNCHANGED <<hostVars, op, moLocals, agentInputs, strategy_response, ai_recommendation,
                   resolved_strategy, attempt, response, ai_plan, accepted,
                   agent_result>>

\* calculate_plan has returned: the template explanation is attached and
\* _optimize_plan returns the result under the strategy name
ReturnFallback ==
    /\ apc = "fallback"
    /\ pc = "idle"
    /\ agent_result' = AgentResult(results[Len(results)], "template", resolved_strategy)
    /\ apc' = "returned"
    /\ UNCHANGED <<hostVars, inputs, pc, calls, results, simLocals, moLocals, agentInputs,
                   strategy_response, ai_recommendation, resolved_strategy, attempt,
                   response, ai_plan, accepted>>

AgentNext ==
    \/ GetStrategyRecommendation
    \/ OptimizePlan
    \/ Attempt
    \/ ReturnAiPlan
    \/ Retry
    \/ FallbackToMath
    \/ SimulateMonth
    \/ ReturnPlan
    \/ ReturnFallback

AgentSpec == AgentInit /\ [][AgentNext]_vars

----------------------------------------------------------------------------
\* Reading the agent's state

\* the debts _generate_ai_plan plans for
AgentDebtInfos == DebtInfosOf(user_debts)

\* an attempt has been parsed and validated and its values are still held
Judged == apc \in {"validated", "returned"} /\ response # NoResponse

\* the external model's last reply decoded to a JSON object
GotObject == Judged /\ response.kind = "json"

\* the debt ids the reply's payoff_order lists
RawPayoffIds(data) == {data.payoff_order[q].debt_id.s : q \in 1..Len(data.payoff_order)}

\* _generate_ai_plan has returned a plan taken from the external model
ReturnedAiPlan ==
    apc = "returned" /\ agent_result.kind = "result" /\ agent_result.ai_explanation = "ai"

\* _generate_ai_plan has returned the result of the fallback
ReturnedFallback ==
    apc = "returned" /\ agent_result.kind = "result"
        /\ agent_result.ai_explanation = "template"

----------------------------------------------------------------------------
\* C11: every result _generate_ai_plan returns, a validated candidate of the
\* external model included, has total_paid = total_interest + the sum of
\* the input balances, within 0.01 per debt.
C11_ReturnedConserves ==
    (apc = "returned" /\ agent_result.kind = "result") =>
        Abs(agent_result.plan.total_paid - agent_result.plan.total_interest
            - SumSeq(BalancesOf(AgentDebtInfos)))
          <= EPSILON * Len(AgentDebtInfos)

----------------------------------------------------------------------------
\* C12: a candidate with a non-empty payoff_order whose set of debt ids is
\* not the set of input debt ids is rejected, whatever its other fields,
\* and is not what _generate_ai_plan returns.
C12_IdMismatchRejected ==
    (/\ GotObject
     /\ response.data.payoff_order # <<>>
     /\ RawPayoffIds(response.data) # IdsOf(AgentDebtInfos))
        => (~accepted /\ apc # "returned")

\* a candidate that lists an id too many, parsed into a plan with a
\* schedule ending at zero, has been rejected by the validator
C12_Witness ==
    /\ apc = "validated" /\ GotObject
    /\ response.data.payoff_order # <<>>
    /\ IdsOf(AgentDebtInfos) \subseteq RawPayoffIds(response.data)
    /\ RawPayoffIds(response.data) # IdsOf(AgentDebtInfos)
    /\ ai_plan.kind = "plan"
    /\ FinalRemainingOk(ai_plan)
    /\ ~accepted

----------------------------------------------------------------------------
\* C13: a candidate whose payoff_order lists a debt id more than once is
\* rejected; every accepted plan has exactly one payoff_order entry per
\* input debt.
C13_OneEntryPerDebt ==
    (Judged /\ accepted) =>
        /\ Len(ai_plan.payoff_order) = Len(AgentDebtInfos)
        /\ \A i \in 1..Len(AgentDebtInfos) :
              Cardinality({q \in 1..Len(ai_plan.payoff_order) :
                              ai_plan.payoff_order[q].debt_id = AgentDebtInfos[i].id}) = 1

----------------------------------------------------------------------------
\* C14: an otherwise valid candidate with an empty payoff_order and an
\* is_payoff_month marker for every input debt is accepted, with a
\* reconstructed payoff_order of one entry per input debt whose payoff_month
\* is the month of the debt's first marker.

\* positions in the reply's schedule of the months that mark the debt
MarkedMonths(data, id) ==
    {j \in 1..Len(data.monthly_schedule) :
        \E q \in 1..Len(data.monthly_schedule[j].payments) :
            /\ data.monthly_schedule[j].payments[q].debt_id = Str(id)
            /\ data.monthly_schedule[j].payments[q].is_payoff_month = Bool(TRUE)}

\* the month number of the debt's first marker
FirstMarkedMonth(data, id) ==
    data.monthly_schedule[
        CHOOSE j \in MarkedMonths(data, id) : \A k \in MarkedMonths(data, id) : j <= k
    ].month.n

\* every field but payoff_order is as the parser and the validator want it
OtherwiseValid(data) ==
    /\ data.debt_free_date.t = "str" /\ IsIsoDate(data.debt_free_date.s)
    /\ data.monthly_schedule # <<>>
    /\ \A j \in 1..Len(data.monthly_schedule) :
          LET md == data.monthly_schedule[j]
          IN  /\ md.month = Num(j)
              /\ md.date.t = "str" /\ IsIsoDate(md.date.s)
              /\ md.total_payment.t = "num" /\ md.total_payment.n >= 0
              /\ md.total_remaining.t = "num" /\ md.total_remaining.n >= 0
              /\ md.payments # <<>>
              /\ \A q \in 1..Len(md.payments) :
                    /\ md.payments[q].debt_id.t = "str"
                    /\ md.payments[q].debt_id.s \in IdsOf(AgentDebtInfos)
                    /\ md.payments[q].debt_name.t = "str"
                    /\ md.payments[q].payment_amount.t = "num"
                    /\ md.payments[q].principal.t = "num"
                    /\ md.payments[q].interest.t = "num"
                    /\ md.payments[q].remaining_balance.t = "num"
    /\ data.monthly_schedule[Len(data.monthly_schedule)].total_remaining.n
          <= FINAL_TOLERANCE
    /\ data.total_months.t = "num" /\ data.total_months.n > 0
    /\ data.total_interest.t = "num" /\ data.total_interest.n >= 0
    /\ data.total_paid.t = "num" /\ data.total_paid.n > 0
    /\ data.monthly_payment.t = "num" /\ data.monthly_payment.n > 0

\* the reply has no payoff_order, is otherwise valid and marks every debt
Repairable ==
    /\ GotObject
    /\ response.data.payoff_order = <<>>
    /\ OtherwiseValid(response.data)
    /\ \A i \in 1..Len(AgentDebtInfos) :
          MarkedMonths(response.data, AgentDebtInfos[i].id) # {}

C14_PayoffOrderRepaired ==
    Repairable =>
        /\ accepted
        /\ Len(ai_plan.payoff_order) = Len(AgentDebtInfos)
        /\ \A i \in 1..Len(AgentDebtInfos) :
              \E q \in 1..Len(ai_plan.payoff_order) :
                 /\ ai_plan.payoff_order[q].debt_id = AgentDebtInfos[i].id
                 /\ ai_plan.payoff_order[q].payoff_month =
                        FirstMarkedMonth(response.data, AgentDebtInfos[i].id)

\* a repaired candidate for two debts, one of them marked in both months
C14_Witness ==
    /\ Repairable
    /\ Len(AgentDebtInfos) = 2
    /\ Cardinality(MarkedMonths(response.data, AgentDebtInfos[1].id)) = 2
    /\ accepted
    /\ ai_plan.payoff_order[1].payoff_month = 1
    /\ ai_plan.payoff_order[2].payoff_month = 2

----------------------------------------------------------------------------
\* C15: every accepted plan has a non-empty monthly_schedule whose last
\* entry has total_remaining <= 1.0; a candidate whose schedule is empty
\* or ends above 1.0 is rejected.
C15_TerminalBalance ==
    /\ (Judged /\ accepted) =>
          /\ ai_plan.monthly_schedule # <<>>
          /\ ai_plan.monthly_schedule[Len(ai_plan.monthly_schedule)].total_remaining
                <= FINAL_TOLERANCE
    /\ (GotObject /\ response.data.monthly_schedule = <<>>) => ~accepted
    /\ (/\ GotObject
        /\ response.data.monthly_schedule # <<>>
        /\ response.data.monthly_schedule[Len(response.data.monthly_schedule)]
              .total_remaining.n > FINAL_TOLERANCE) => ~accepted

\* a parsed plan listing exactly the input debts was rejected for ending
\* at 5.00
C15_Witness ==
    /\ apc = "validated" /\ GotObject
    /\ ai_plan.kind = "plan"
    /\ PayoffIdsMatch(ai_plan, AgentDebtInfos)
    /\ ai_plan.monthly_schedule # <<>>
    /\ ai_plan.monthly_schedule[Len(ai_plan.monthly_schedule)].total_remaining = Cur(5)
    /\ ~accepted

----------------------------------------------------------------------------
\* C16: whatever text the external model returns, _parse_ai_plan_response
\* yields a plan or None and _validate_ai_plan yields true or false; no
\* exception leaves either, so a failure to parse or validate is a reject.
C16_ParseNeverRaises ==
    Judged =>
        /\ ai_plan.kind \in {"plan", "none"}
        /\ accepted \in BOOLEAN
        /\ (ai_plan.kind = "none" => ~accepted)

\* an exception was raised inside the parser (json.loads, fromisoformat,
\* a missing payoff_month) and the attempt ended as a reject
C16_Witness ==
    /\ apc = "validated"
    /\ response.kind \in {"bad_json", "json"}
    /\ ParseBody(response, constraints.start_date) = Raised
    /\ ai_plan = None
    /\ ~accepted

----------------------------------------------------------------------------
\* C17: one run of _generate_ai_plan calls the external model at most
\* max_retries times, the attempts are numbered 1..max_retries in order,
\* and the first accepted candidate ends the loop and is the value returned.
C17_BoundedRetries ==
    [][/\ attempt' \in {attempt, attempt + 1}
       /\ attempt' <= max_retries
       /\ (attempt' = attempt + 1) <=> (apc = "generate")
       /\ (apc = "validated" /\ accepted) =>
             /\ attempt' = attempt
             /\ apc' = "returned"
             /\ agent_result'.kind = "result"
             /\ agent_result'.plan = ai_plan
       /\ (apc = "returned") => (attempt' = attempt /\ apc' = "returned")
      ]_vars

\* the third attempt's candidate was accepted and returned
C17_Witness ==
    /\ ReturnedAiPlan
    /\ attempt = max_retries
    /\ agent_result.plan = ai_plan
    /\ calls = 0

----------------------------------------------------------------------------
----------------------------------------------------------------------------
\* C19: in auto mode, when the strategy call raises or returns content
\* that cannot be parsed into a valid recommendation, the advisor resolves
\* avalanche if the highest APR among the open debts exceeds 15 and
\* snowball otherwise, and suggests an extra payment of 10% of
\* max(0, monthly_budget - total minimums).

\* the reply is not a JSON object naming avalanche or snowball
NoValidRecommendation(r) ==
    \/ r.kind = "raise"
    \/ r.json \in {"none", "malformed"}
    \/ r.strategy.t # "str"
    \/ r.strategy.s \notin {"avalanche", "snowball"}

\* the highest APR among the caller's debts that are not paid off
HighestOpenApr ==
    CHOOSE x \in {user_debts[i].apr : i \in {j \in 1..Len(user_debts) : ~user_debts[j].is_paid_off}} :
        \A i \in 1..Len(user_debts) : ~user_debts[i].is_paid_off => user_debts[i].apr <= x

\* the sum of the minimum payments of the debts that are not paid off
OpenMinimums ==
    SumSeq([i \in 1..Len(user_debts) |->
               IF user_debts[i].is_paid_off THEN 0 ELSE user_debts[i].minimum_payment])

C19_AdvisorHeuristic ==
    (apc = "advised" /\ NoValidRecommendation(strategy_response)) =>
        /\ ai_recommendation.strategy =
              IF HighestOpenApr > 15 THEN "avalanche" ELSE "snowball"
        /\ ai_recommendation.suggested_extra_payment =
              Num(Max(0, monthly_budget - OpenMinimums) \div 10)

----------------------------------------------------------------------------
\* C20: for valid inputs (an active debt, a budget above zero, strategy
\* avalanche, snowball or auto) optimize_repayment_plan returns a result
\* and never raises, whatever the external model does on the strategy call
\* and on the plan calls.
C20_NeverRaises ==
    (/\ ActiveDebts(user_debts) # <<>>
     /\ monthly_budget > 0
     /\ requested_strategy \in {"avalanche", "snowball", "auto"})
        => (apc # "raised" /\ agent_result # Raised)

----------------------------------------------------------------------------
\* Reading the schedule of a calculate_plan result

\* the schedule items of r, month after month
ScheduleItems(r) == AllItems(r.monthly_schedule)

\* the interest of the debt's items in the months 1..m of r
OwnInterestUpTo(r, id, m) ==
    SumSeq([q \in 1..Len(ScheduleItems(r)) |->
               IF ScheduleItems(r)[q].debt_id = id /\ ScheduleItems(r)[q].month <= m
               THEN ScheduleItems(r)[q].interest ELSE 0])

----------------------------------------------------------------------------
\* C21: a request with no debts or with a monthly budget <= 0 is rejected
\* at once: no simulation month runs and no OptimizationResult is returned.
C21_InputErrorsRejected ==
    (op = "calculate_plan" /\ (debts = <<>> \/ available_monthly <= 0)) =>
        /\ results = <<>>
        /\ pc = "idle"
        /\ month = 0

----------------------------------------------------------------------------
\* C22: no month of a returned plan pays more than available_monthly +
\* extra_payment; a budget below the sum of the minimums is not raised to it.
C22_BudgetRespected ==
    \A r \in PlanResults : \A k \in 1..Len(r.monthly_schedule) :
        r.monthly_schedule[k].total_payment <= available_monthly + extra_payment

----------------------------------------------------------------------------
\* C24: in a result for two or more debts, the total_interest_paid of each
\* payoff_order entry is the sum of the interest of that debt's own
\* schedule items up to its payoff month.
C24_OwnInterest ==
    \A r \in PlanResults :
        Len(debts) >= 2 =>
            \A q \in 1..Len(r.payoff_order) :
                r.payoff_order[q].total_interest_paid =
                    OwnInterestUpTo(r, r.payoff_order[q].debt_id,
                                    r.payoff_order[q].payoff_month)

----------------------------------------------------------------------------
\* C25: the summary of a result is the sum of its schedule: total_interest
\* the interest of all items, total_paid the payment_amount of all items,
\* total_months the number of months, also when a minimum payment is below
\* the monthly interest.
C25_SummaryFromSchedule ==
    \A r \in PlanResults :
        /\ r.total_months = Len(r.monthly_schedule)
        /\ r.total_interest =
              SumSeq([q \in 1..Len(ScheduleItems(r)) |-> ScheduleItems(r)[q].interest])
        /\ r.total_paid =
              SumSeq([q \in 1..Len(ScheduleItems(r)) |-> ScheduleItems(r)[q].payment_amount])
        /\ r.total_paid =
              SumSeq([k \in 1..Len(r.monthly_schedule) |-> r.monthly_schedule[k].total_payment])

----------------------------------------------------------------------------
\* The plan and its minimum-only comparison (PlanService.generate_plan calls
\* calculate_plan and then calculate_minimum_only_plan on the same debts),
\* specification CompareSpec: one debt, a budget equal to its minimum
\* payment, no extra payment

CompareInit ==
    /\ op = "calculate_plan"
    /\ debts \in {<<d>> : d \in DebtPool}
    /\ available_monthly = debts[1].minimum_payment
    /\ strategy \in Strategies
    /\ extra_payment = 0
    /\ start_date \in StartDates
    /\ pc = "idle"
    /\ calls = 0
    /\ results = <<>>
    /\ sorted_debts = <<>>
    /\ monthly_payment = 0
    /\ balances = <<>>
    /\ monthly_schedule = <<>>
    /\ projections = <<>>
    /\ payoff_order = <<>>
    /\ total_interest_paid = 0
    /\ total_principal_paid = 0
    /\ month = 0
    /\ current_date = start_date
    /\ mo_balances = <<>>
    /\ total_interest = 0
    /\ mo_month = 0
    /\ user_debts = <<>>
    /\ monthly_budget = 0
    /\ requested_strategy = AVALANCHE
    /\ constraints = [extra_payment |-> Absent, start_date |-> start_date]
    /\ apc = "idle"
    /\ strategy_response = NoResponse
    /\ ai_recommendation = None
    /\ resolved_strategy = AVALANCHE
    /\ attempt = 0
    /\ response = NoResponse
    /\ ai_plan = None
    /\ accepted = FALSE
    /\ agent_result = None
    /\ HostIdle

\* the plan has been returned: the caller goes on to the comparison run
CallMinimumOnly ==
    /\ op = "calculate_plan"
    /\ pc = "idle"
    /\ results # <<>>
    /\ op' = "calculate_minimum_only_plan"
    /\ UNCHANGED <<hostVars, debts, available_monthly, strategy, extra_payment, start_date,
                   pc, calls, results, simLocals, moLocals, agentVars>>

CompareNext ==
    \/ CalculatePlan
    \/ SimulateMonth
    \/ ReturnPlan
    \/ CallMinimumOnly
    \/ CalculateMinimumOnly
    \/ MinimumOnlyMonth
    \/ ReturnMinimumOnly

CompareSpec == CompareInit /\ [][CompareNext]_vars

\* both runs have returned: the plan first, the comparison last
BothReturned ==
    /\ pc = "idle"
    /\ Len(results) >= 2
    /\ results[1].kind = "plan"
    /\ results[Len(results)].kind = "minimum_only"

----------------------------------------------------------------------------
\* C23: for a single debt, calculate_plan with a budget equal to the
\* minimum payment and no extra payment yields the same total_months and
\* total_interest as calculate_minimum_only_plan, also when the minimum
\* payment is below the monthly interest.
C23_SameAsBaseline ==
    BothReturned =>
        /\ results[1].total_months = results[Len(results)].total_months
        /\ results[1].total_interest = results[Len(results)].total_interest

----------------------------------------------------------------------------
\* the payment lines the reply holds and the lines the parsed plan keeps
RawLines(data) ==
    SumSeq([m \in 1..Len(data.monthly_schedule) |->
               Len(data.monthly_schedule[m].payments)])

KeptLines(plan) == Len(AllItems(plan.monthly_schedule))

\* payment_amount, principal, interest and remaining_balance of a line
LineNonNegative(it) ==
    /\ it.payment_amount >= 0
    /\ it.principal >= 0
    /\ it.interest >= 0
    /\ it.remaining_balance >= 0

\* C26: every accepted plan has payment_amount, principal, interest and
\* remaining_balance >= 0 in every payment line of every month, and keeps
\* every payment line of the reply: no line with an invalid field is
\* dropped while the rest of its month is accepted.
C26_LinesValid ==
    (GotObject /\ accepted) =>
        /\ \A q \in 1..KeptLines(ai_plan) :
               LineNonNegative(AllItems(ai_plan.monthly_schedule)[q])
        /\ KeptLines(ai_plan) = RawLines(response.data)

----------------------------------------------------------------------------
\* C28: optimize_repayment_plan leaves the inputs of its caller as they
\* were: no step of a run, in any mode, changes the debts list, a debt
\* record or the constraints dict.
C28_InputsUnchanged ==
    [][user_debts' = user_debts /\ constraints' = constraints]_vars

----------------------------------------------------------------------------
\* C29: the strategy field of the result optimize_repayment_plan returns is
\* "avalanche" or "snowball" and names the strategy the schedule was
\* generated under, whatever strategy string the caller passed (the
\* orchestrator passes its user_goal, "minimize_debt" by default).
C29_StrategyNamed ==
    (apc = "returned" /\ agent_result.kind = "result") =>
        /\ agent_result.strategy \in Strategies
        /\ agent_result.strategy = RepaymentStrategyOf(resolved_strategy)

----------------------------------------------------------------------------
\* Optimization runs hosted on one event loop, specification LoopSpec.
\* _generate_ai_plan is a coroutine: the loop's thread executes one run at
\* a time, from the point where the loop resumes it to the next await,
\* where the run is suspended and the thread goes back to the loop.  The
\* only await of the retry loop is the call of the external model;
\* time.sleep is an ordinary call that returns after the delay.

\* optimization runs hosted on the loop
MaxRuns == 2

Runs == 1..MaxRuns

\* calculate_plan has not been called
ServiceIdle ==
    /\ op = "optimize_repayment_plan"
    /\ debts = <<>>
    /\ available_monthly = 0
    /\ strategy = AVALANCHE
    /\ extra_payment = 0
    /\ start_date \in StartDates
    /\ pc = "idle"
    /\ calls = 0
    /\ results = <<>>
    /\ sorted_debts = <<>>
    /\ monthly_payment = 0
    /\ balances = <<>>
    /\ monthly_schedule = <<>>
    /\ projections = <<>>
    /\ payoff_order = <<>>
    /\ total_interest_paid = 0
    /\ total_principal_paid = 0
    /\ month = 0
    /\ current_date = start_date
    /\ mo_balances = <<>>
    /\ total_interest = 0
    /\ mo_month = 0

\* the single-run model of optimize_repayment_plan is not in use
AgentIdle ==
    /\ user_debts = <<>>
    /\ monthly_budget = 0
    /\ requested_strategy = AVALANCHE
    /\ constraints = [extra_payment |-> Absent, start_date |-> start_date]
    /\ apc = "idle"
    /\ strategy_response = NoResponse
    /\ ai_recommendation = None
    /\ resolved_strategy = AVALANCHE
    /\ attempt = 0
    /\ response = NoResponse
    /\ ai_plan = None
    /\ accepted = FALSE
    /\ agent_result = None

\* every run has been scheduled on the loop and none has started
LoopInit ==
    /\ ServiceIdle
    /\ AgentIdle
    /\ OrchIdle
    /\ loop_running = 0
    /\ run_pc = [r \in Runs |-> "scheduled"]
    /\ run_attempt = [r \in Runs |-> 0]

\* a run the loop can resume: it has not started, or it is suspended in
\* the await of the external model's call
Resumable(r) == run_pc[r] \in {"scheduled", "awaiting"}

\* the loop, executing no run, resumes run r: at the top of the retry loop
\* if it has not started, else with what the external model did
Resume(r) ==
    /\ loop_running = 0
    /\ Resumable(r)
    /\ loop_running' = r
    /\ run_pc' = [run_pc EXCEPT ![r] = IF run_pc[r] = "scheduled" THEN "generate"
                                       ELSE "replied"]
    /\ UNCHANGED <<inputs, pc, calls, results, simLocals, moLocals, agentVars,
                   orchVars, run_attempt>>

\* "await openai_client.chat_completion(...)": the run is suspended
CallModel(r) ==
    /\ loop_running = r
    /\ run_pc[r] = "generate"
    /\ run_pc' = [run_pc EXCEPT ![r] = "awaiting"]
    /\ run_attempt' = [run_attempt EXCEPT ![r] = @ + 1]
    /\ loop_running' = 0
    /\ UNCHANGED <<inputs, pc, calls, results, simLocals, moLocals, agentVars,
                   orchVars>>

\* the rest of the attempt: the candidate is accepted and returned; or the
\* attempt failed (the call raised, the candidate was rejected) and the
\* run sleeps before the next one, in time.sleep, which does not give the
\* thread back to the loop; or it was the last attempt and the run returns
\* the fallback's result
Judge(r) ==
    /\ loop_running = r
    /\ run_pc[r] = "replied"
    /\ \E ok \in BOOLEAN :
          IF ok
          THEN /\ run_pc' = [run_pc EXCEPT ![r] = "returned"]
               /\ loop_running' = 0
          ELSE IF AttemptsLeft(run_attempt[r])
          THEN /\ run_pc' = [run_pc EXCEPT ![r] = "sleeping"]
               /\ loop_running' = r
          ELSE /\ run_pc' = [run_pc EXCEPT ![r] = "fell_back"]
               /\ loop_running' = 0
    /\ UNCHANGED <<inputs, pc, calls, results, simLocals, moLocals, agentVars,
                   orchVars, run_attempt>>

\* the delay is over: the run continues with the next attempt
SleepReturns(r) ==
    /\ loop_running = r
    /\ run_pc[r] = "sleeping"
    /\ run_pc' = [run_pc EXCEPT ![r] = "generate"]
    /\ loop_running' = r
    /\ UNCHANGED <<inputs, pc, calls, results, simLocals, moLocals, agentVars,
                   orchVars, run_attempt>>

LoopNext ==
    \E r \in Runs :
        \/ Resume(r)
        \/ CallModel(r)
        \/ Judge(r)
        \/ SleepReturns(r)

LoopSpec == LoopInit /\ [][LoopNext]_vars

----------------------------------------------------------------------------
\* C27: while one optimization run waits out the delay between two
\* attempts, another run hosted on the same loop that is ready to continue
\* can take its step: the delay does not stall unrelated runs.
C27_DelayDoesNotStall ==
    \A r \in Runs : \A o \in Runs \ {r} :
        (run_pc[r] = "sleeping" /\ Resumable(o)) => ENABLED Resume(o)

----------------------------------------------------------------------------
\* DebtResolutionOrchestrator.handle_user_event, specification OrchSpec.
\* The specialised agents are the environment: a call of one returns a
\* result or raises.  One step is _handle_adaptive_event up to the loop of
\* _orchestrate_workflow, one iteration of that loop, or the return.

max_iterations == 10

\* event types: the three major ones, the two minor ones, an unknown one
MajorEvents == {"income_change", "unexpected_expense", "new_debt"}
MinorEvents == {"payment_missed", "payment_made"}
EventTypes == MajorEvents \cup MinorEvents \cup {"goal_change"}

\* what the orchestrator reads of a FinancialAssessment: whether a risk
\* factor has severity high or critical, and how many of the debts are in
\* the category high_interest_credit (the first two are used)
Assessments == [kind : {"assessment"}, high_risk : BOOLEAN, high_interest : 0..2]

\* the result of another agent
AgentOutput(name) == [kind |-> name]

_determine_starting_phase(trigger, plan) ==
    IF trigger = "income_change" THEN RE_ASSESSMENT
    ELSE IF trigger = "new_user" THEN ASSESSMENT
    ELSE IF plan THEN ACTION_PLANNING
    ELSE ASSESSMENT

\* the OrchestratorDecision for the current phase
_reason_next_step(phase) ==
    [phase |-> phase,
     next_agent |-> CASE phase = ASSESSMENT -> "AssessmentAgent"
                      [] phase = OPTIMIZATION -> "OptimizationAgent"
                      [] phase = ACTION_PLANNING -> "ActionAgent"
                      [] phase = HABIT_MONITORING -> "HabitAgent"
                      [] phase = NEGOTIATION -> "NegotiationAgent"
                      [] OTHER -> "Unknown"]

OrchestratorResult(a, o, d, m, n, trace) ==
    [kind |-> "result", assessment |-> a, optimization |-> o, daily_actions |-> d,
     milestones |-> m, negotiation_plans |-> n, workflow_trace |-> trace]

OrchInit ==
    /\ ServiceIdle
    /\ AgentIdle
    /\ LoopIdle
    /\ event_type \in EventTypes
    /\ existing_plan \in BOOLEAN
    /\ opc = "called"
    /\ trigger_event = ""
    /\ current_phase = ASSESSMENT
    /\ iteration = 0
    /\ assessment_result = None
    /\ optimization_result = None
    /\ daily_actions_result = None
    /\ milestones_result = None
    /\ negotiation_plans = 0
    /\ workflow_trace = <<>>
    /\ agent_calls = <<>>
    /\ orch_result = None

\* a major event: _orchestrate_workflow is entered with the event as its
\* trigger and runs up to its loop
HandleMajorEvent ==
    /\ opc = "called"
    /\ event_type \in MajorEvents
    /\ trigger_event' = event_type
    /\ current_phase' = _determine_starting_phase(event_type, existing_plan)
    /\ opc' = "loop"
    /\ UNCHANGED <<inputs, pc, calls, results, simLocals, moLocals, agentVars,
                   loopVars, orchInputs, iteration, assessment_result,
                   optimization_result, daily_actions_result, milestones_result,
                   negotiation_plans, workflow_trace, agent_calls, orch_result>>

\* a minor event: the action agent only
HandleMinorEvent ==
    /\ opc = "called"
    /\ event_type \in MinorEvents
    /\ trigger_event' = event_type
    /\ agent_calls' = Append(agent_calls, "ActionAgent")
    /\ \E raises \in BOOLEAN :
          IF raises
          THEN opc' = "raised" /\ orch_result' = Raised
          ELSE /\ opc' = "returned"
               /\ orch_result' = OrchestratorResult(None, None,
                                     AgentOutput("daily_actions"), None, 0, <<>>)
    /\ UNCHANGED <<inputs, pc, calls, results, simLocals, moLocals, agentVars,
                   loopVars, orchInputs, current_phase, iteration,
                   assessment_result, optimization_result, daily_actions_result,
                   milestones_result, negotiation_plans, workflow_trace>>

\* any other event: the current state is returned
HandleUnknownEvent ==
    /\ opc = "called"
    /\ event_type \notin MajorEvents \cup MinorEvents
    /\ trigger_event' = event_type
    /\ opc' = "returned"
    /\ orch_result' = OrchestratorResult(None, None, None, None, 0, <<>>)
    /\ UNCHANGED <<inputs, pc, calls, results, simLocals, moLocals, agentVars,
                   loopVars, orchInputs, current_phase, iteration,
                   assessment_result, optimization_result, daily_actions_result,
                   milestones_result, negotiation_plans, workflow_trace,
                   agent_calls>>

\* an iteration of the loop begins in phase ph: the decision is recorded
Iterate(ph) ==
    /\ opc = "loop"
    /\ iteration < max_iterations
    /\ current_phase = ph
    /\ iteration' = iteration + 1
    /\ workflow_trace' = Append(workflow_trace, _reason_next_step(current_phase))

StepAssessment ==
    /\ Iterate(ASSESSMENT)
    /\ agent_calls' = Append(agent_calls, "AssessmentAgent")
    /\ \/ /\ opc' = "raised"
          /\ orch_result' = Raised
          /\ UNCHANGED <<assessment_result, current_phase>>
       \/ /\ assessment_result' \in Assessments
          /\ current_phase' = OPTIMIZATION
          /\ UNCHANGED <<opc, orch_result>>
    /\ UNCHANGED <<inputs, pc, calls, results, simLocals, moLocals, agentVars,
                   loopVars, orchInputs, trigger_event, optimization_result,
                   daily_actions_result, milestones_result, negotiation_plans>>

StepOptimization ==
    /\ Iterate(OPTIMIZATION)
    /\ IF assessment_result = None
       THEN /\ current_phase' = ASSESSMENT
            /\ UNCHANGED <<opc, orch_result, optimization_result, agent_calls>>
       ELSE /\ agent_calls' = Append(agent_calls, "OptimizationAgent")
            /\ \/ /\ opc' = "raised"
                  /\ orch_result' = Raised
                  /\ UNCHANGED <<optimization_result, current_phase>>
               \/ /\ optimization_result' = AgentOutput("optimization")
                  /\ current_phase' = ACTION_PLANNING
                  /\ UNCHANGED <<opc, orch_result>>
    /\ UNCHANGED <<inputs, pc, calls, results, simLocals, moLocals, agentVars,
                   loopVars, orchInputs, trigger_event, assessment_result,
                   daily_actions_result, milestones_result, negotiation_plans>>

StepActionPlanning ==
    /\ Iterate(ACTION_PLANNING)
    /\ IF optimization_result = None
       THEN /\ current_phase' = OPTIMIZATION
            /\ UNCHANGED <<opc, orch_result, daily_actions_result, agent_calls>>
       ELSE /\ agent_calls' = Append(agent_calls, "ActionAgent")
            /\ \/ /\ opc' = "raised"
                  /\ orch_result' = Raised
                  /\ UNCHANGED <<daily_actions_result, current_phase>>
               \/ /\ daily_actions_result' = AgentOutput("daily_actions")
                  /\ current_phase' = HABIT_MONITORING
                  /\ UNCHANGED <<opc, orch_result>>
    /\ UNCHANGED <<inputs, pc, calls, results, simLocals, moLocals, agentVars,
                   loopVars, orchInputs, trigger_event, assessment_result,
                   optimization_result, milestones_result, negotiation_plans>>

\* the milestones are checked; then negotiation if the assessment has a
\* high or critical risk factor, else the loop is left
StepHabitMonitoring ==
    /\ Iterate(HABIT_MONITORING)
    /\ agent_calls' = Append(agent_calls, "HabitAgent")
    /\ \/ /\ opc' = "raised"
          /\ orch_result' = Raised
          /\ UNCHANGED <<milestones_result, current_phase>>
       \/ /\ milestones_result' = AgentOutput("milestones")
          /\ IF assessment_result # None /\ assessment_result.high_risk
             THEN current_phase' = NEGOTIATION /\ opc' = opc
             ELSE current_phase' = current_phase /\ opc' = "summary"
          /\ UNCHANGED orch_result
    /\ UNCHANGED <<inputs, pc, calls, results, simLocals, moLocals, agentVars,
                   loopVars, orchInputs, trigger_event, assessment_result,
                   optimization_result, daily_actions_result, negotiation_plans>>

\* a plan per high-interest debt, two at most; the loop is left
StepNegotiation ==
    /\ Iterate(NEGOTIATION)
    /\ LET n == IF assessment_result = None THEN 0 ELSE assessment_result.high_interest
       IN  \E made \in 0..n :
              /\ agent_calls' = agent_calls \o
                    [q \in 1..(IF made < n THEN made + 1 ELSE n) |-> "NegotiationAgent"]
              /\ negotiation_plans' = negotiation_plans + made
              /\ IF made < n
                 THEN opc' = "raised" /\ orch_result' = Raised
                 ELSE opc' = "summary" /\ orch_result' = orch_result
    /\ UNCHANGED <<inputs, pc, calls, results, simLocals, moLocals, agentVars,
                   loopVars, orchInputs, trigger_event, current_phase,
                   assessment_result, optimization_result, daily_actions_result,
                   milestones_result>>

\* a phase no branch of the loop handles: the iteration does nothing
StepUnhandledPhase ==
    /\ Iterate(RE_ASSESSMENT)
    /\ UNCHANGED <<inputs, pc, calls, results, simLocals, moLocals, agentVars,
                   loopVars, orchInputs, opc, trigger_event, current_phase,
                   assessment_result, optimization_result, daily_actions_result,
                   milestones_result, negotiation_plans, agent_calls, orch_result>>

\* range(self.max_iterations) is exhausted
IterationsExhausted ==
    /\ opc = "loop"
    /\ iteration = max_iterations
    /\ opc' = "summary"
    /\ UNCHANGED <<inputs, pc, calls, results, simLocals, moLocals, agentVars,
                   loopVars, orchInputs, trigger_event, current_phase, iteration,
                   assessment_result, optimization_result, daily_actions_result,
                   milestones_result, negotiation_plans, workflow_trace,
                   agent_calls, orch_result>>

\* after the loop: the OrchestratorResult is returned
ReturnWorkflow ==
    /\ opc = "summary"
    /\ orch_result' = OrchestratorResult(assessment_result, optimization_result,
                          daily_actions_result, milestones_result,
                          negotiation_plans, workflow_trace)
    /\ opc' = "returned"
    /\ UNCHANGED <<inputs, pc, calls, results, simLocals, moLocals, agentVars,
                   loopVars, orchInputs, trigger_event, current_phase, iteration,
                   assessment_result, optimization_result, daily_actions_result,
                   milestones_result, negotiation_plans, workflow_trace,
                   agent_calls>>

OrchNext ==
    \/ HandleMajorEvent
    \/ HandleMinorEvent
    \/ HandleUnknownEvent
    \/ StepAssessment
    \/ StepOptimization
    \/ StepActionPlanning
    \/ StepHabitMonitoring
    \/ StepNegotiation
    \/ StepUnhandledPhase
    \/ IterationsExhausted
    \/ ReturnWorkflow

OrchSpec == OrchInit /\ [][OrchNext]_vars

\* the agents invoked so far
Invoked(name) == \E q \in 1..Len(agent_calls) : agent_calls[q] = name

----------------------------------------------------------------------------
\* C30: for the major events income_change, unexpected_expense and
\* new_debt, handle_user_event performs a full re-assessment: when the
\* workflow returns the assessment agent has been invoked, the
\* optimization agent was invoked only after an assessment result existed,
\* and the loop made at most max_iterations iterations.
C30_FullReassessment ==
    (opc = "returned" /\ event_type \in MajorEvents) =>
        /\ Invoked("AssessmentAgent")
        /\ \A q \in 1..Len(agent_calls) :
              agent_calls[q] = "OptimizationAgent" =>
                  \E j \in 1..(q - 1) : agent_calls[j] = "AssessmentAgent"
        /\ Len(workflow_trace) <= max_iterations

====
